---------------------------- MODULE Spec2Model ----------------------------
(***************************************************************************)
(* Future-Wallet: a day-by-day personal-finance simulator.                 *)
(*                                                                         *)
(* The module models                                                       *)
(*   - the exact-decimal arithmetic the wallet uses (models.py),           *)
(*   - the financial component nodes (nodes/*.py),                         *)
(*   - the component DAG (dag_engine.py),                                  *)
(*   - the state manager with snapshots and timelines (state_manager.py),  *)
(*   - the simulation driver (simulation_engine.py).                       *)
(*                                                                         *)
(* Objects that the Python code shares by reference (wallet states,        *)
(* assets, debts, DAGs, state managers) live in explicit heaps, so that    *)
(* aliasing between a live state and a stored one is expressible.          *)
(***************************************************************************)
EXTENDS Integers, Sequences, FiniteSets, TLC

VARIABLES
    dags,       \* DAGEngine objects: dag id -> DAG record
    engines,    \* SimulationEngine objects: engine id -> engine record
    managers,   \* StateManager objects: manager id -> manager record
    heap,       \* WalletState / Asset / Debt objects
    unit        \* the call under test of the single-operation specifications

vars == <<dags, engines, managers, heap, unit>>

(***************************************************************************)
(* Bounds of the model.                                                    *)
(***************************************************************************)

\* Significant digits of the decimal context.  The source works with 28
\* digits (models.py:14); 32-bit integers cannot hold 28-digit coefficients,
\* so the context is modelled with Prec digits and the same rounding rule.
Prec == 3

\* Significant digits a binary float keeps of a decimal (17 of 28 in the
\* source); always fewer than Prec.
FloatDigits == 2

(***************************************************************************)
(* Exact-decimal arithmetic (decimal.Decimal under getcontext().prec).      *)
(* A decimal is held as an integer number of quanta of 10^-Prec.  Every     *)
(* arithmetic result is rounded half-even to Prec significant digits, as    *)
(* the decimal context does.                                                *)
(***************************************************************************)

RECURSIVE Pow10(_)
Pow10(n) == IF n <= 0 THEN 1 ELSE 10 * Pow10(n - 1)

\* Decimal(str) of the literal n / 10^f
Dec(n, f) == n * Pow10(Prec - f)

Abs(x) == IF x < 0 THEN -x ELSE x

Sgn(x) == IF x < 0 THEN -1 ELSE 1

RECURSIVE Digits(_)
Digits(m) == IF m < 10 THEN 1 ELSE 1 + Digits(m \div 10)

\* coefficient of m without its trailing zeros
RECURSIVE Coef(_)
Coef(m) == IF m # 0 /\ m % 10 = 0 THEN Coef(m \div 10) ELSE m

RECURSIVE TrailingZeros(_)
TrailingZeros(m) == IF m # 0 /\ m % 10 = 0 THEN 1 + TrailingZeros(m \div 10) ELSE 0

Max(a, b) == IF a >= b THEN a ELSE b

Min(a, b) == IF a <= b THEN a ELSE b

\* The magnitude (m + f) * 10^x quanta, 0 <= f < 1 and f > 0 iff sticky,
\* rounded half-even to `digits` significant digits and to whole quanta.
RoundTo(digits, m, sticky, x) ==
    LET k == Max(Digits(m) - digits, -x) IN
    IF k <= 0 THEN m * Pow10(x)
    ELSE LET q == m \div Pow10(k)
             r == m % Pow10(k)
             half == 5 * Pow10(k - 1)
             up == \/ r > half
                   \/ r = half /\ (sticky \/ q % 2 = 1)
         IN (IF up THEN q + 1 ELSE q) * Pow10(x + k)

\* ROUND_HALF_EVEN at the context precision
RoundHalfEven(m, sticky, x) == RoundTo(Prec, m, sticky, x)

DAdd(a, b) == Sgn(a + b) * RoundHalfEven(Abs(a + b), FALSE, 0)

DSub(a, b) == DAdd(a, -b)

DMul(a, b) ==
    LET ca == Coef(Abs(a))
        cb == Coef(Abs(b))
        x == TrailingZeros(Abs(a)) + TrailingZeros(Abs(b)) - Prec
    IN Sgn(a) * Sgn(b) * RoundHalfEven(ca * cb, FALSE, x)

\* a / b for b # 0; Prec + 1 quotient digits and a sticky remainder decide
\* the rounding.
DDiv(a, b) ==
    LET ca == Coef(Abs(a))
        cb == Coef(Abs(b))
        s == Max(0, Prec + 1 + Digits(cb) - Digits(ca))
        num == ca * Pow10(s)
        x == TrailingZeros(Abs(a)) - TrailingZeros(Abs(b)) + Prec - s
    IN IF a = 0 THEN 0
       ELSE Sgn(a) * Sgn(b) * RoundHalfEven(num \div cb, num % cb # 0, x)

\* float(d): the nearest binary float keeps FloatDigits digits of d
ToFloat(d) == Sgn(d) * RoundTo(FloatDigits, Abs(d), FALSE, 0)

\* Decimal(str(x)) of a float x: the shortest repr gives x's digits back
FromFloat(x) == x


(***************************************************************************)
(* Dates (datetime.date): the Gregorian calendar.                          *)
(***************************************************************************)

Date(y, m, d) == [year |-> y, month |-> m, day |-> d]

IsLeap(y) == (y % 4 = 0 /\ y % 100 # 0) \/ y % 400 = 0

DaysInMonth(y, m) ==
    IF m = 2 THEN (IF IsLeap(y) THEN 29 ELSE 28)
    ELSE IF m \in {4, 6, 9, 11} THEN 30 ELSE 31

\* current_date + timedelta(days=1)
NextDay(dt) ==
    IF dt.day < DaysInMonth(dt.year, dt.month) THEN Date(dt.year, dt.month, dt.day + 1)
    ELSE IF dt.month < 12 THEN Date(dt.year, dt.month + 1, 1)
    ELSE Date(dt.year + 1, 1, 1)

DateLess(a, b) ==
    \/ a.year < b.year
    \/ a.year = b.year /\ a.month < b.month
    \/ a.year = b.year /\ a.month = b.month /\ a.day < b.day

DateLeq(a, b) == a = b \/ DateLess(a, b)

(***************************************************************************)
(* The deterministic generator (random.Random).  The Mersenne Twister's     *)
(* word state is modelled by a linear congruential state of RngModulus      *)
(* values; gauss() keeps its second variate in gauss_next, which is part    *)
(* of the exported state.                                                   *)
(***************************************************************************)

\* Optional values: no value, or the value v
None == <<>>

Some(v) == <<v>>

RngModulus == 7

\* random.Random(seed)
NewRandom(seed) == [mt |-> seed % RngModulus, gauss_next |-> None]

Twist(mt) == (3 * mt + 1) % RngModulus

\* prng.random(): a float in [0,1)
Random(prng) ==
    [prng |-> [prng EXCEPT !.mt = Twist(prng.mt)],
     value |-> Dec(Twist(prng.mt), 0) \div RngModulus]

\* the standard normal variates a pair of uniform draws yields (cos and sin
\* branch of the Box-Muller transform), in whole standard deviations
GaussCos(m1, m2) == ((m1 + 2 * m2) % 5) - 2

GaussSin(m1, m2) == ((2 * m1 + m2 + 1) % 7) - 3

\* prng.gauss(mu, sigma) on floats mu, sigma
Gauss(prng, mu, sigma) ==
    IF prng.gauss_next # None
    THEN [prng |-> [prng EXCEPT !.gauss_next = None],
          value |-> ToFloat(mu + prng.gauss_next[1] * sigma)]
    ELSE LET m1 == Twist(prng.mt)
             m2 == Twist(m1)
         IN [prng |-> [mt |-> m2, gauss_next |-> Some(GaussSin(m1, m2))],
             value |-> ToFloat(mu + GaussCos(m1, m2) * sigma)]

\* an exported state that leaves the position of the generator out
GetStateWithoutPosition(prng) == <<3, 0, prng.gauss_next>>

\* an exported state that leaves the cached gaussian variate out
GetStateWithoutGauss(prng) == <<3, prng.mt, None>>

\* prng.getstate(): (VERSION, internal state, gauss_next)
GetState(prng) == <<3, prng.mt, prng.gauss_next>>

\* prng.setstate(state)
SetState(prng, state) == [mt |-> state[2], gauss_next |-> state[3]]

(***************************************************************************)
(* Data model (models.py).  A wallet state is handled by the nodes as the   *)
(* value below; assets is the dict in insertion order, debts the list.      *)
(* seen_at_append is a history variable: the live balance at each           *)
(* transaction_history.append call.                                         *)
(***************************************************************************)

Asset(name, asset_type, value, is_liquid, liquidation_penalty) ==
    [name |-> name, asset_type |-> asset_type, value |-> value,
     is_liquid |-> is_liquid, liquidation_penalty |-> liquidation_penalty]

Debt(name, principal, interest_rate, monthly_payment) ==
    [name |-> name, principal |-> principal, interest_rate |-> interest_rate,
     monthly_payment |-> monthly_payment, missed_payments |-> 0]

\* a transaction stamped with the balance from before its amount was applied
StaleTransaction(timestamp, amount, description, category, balance_after) ==
    [timestamp |-> timestamp, amount |-> amount, description |-> description,
     category |-> category, balance_after |-> balance_after - amount]

Transaction(timestamp, amount, description, category, balance_after) ==
    [timestamp |-> timestamp, amount |-> amount, description |-> description,
     category |-> category, balance_after |-> balance_after]

WalletState(current_date, balance, credit_score) ==
    [current_date |-> current_date, balance |-> balance,
     credit_score |-> credit_score, assets |-> <<>>, debts |-> <<>>,
     transaction_history |-> <<>>, total_income_ytd |-> 0,
     total_expenses_ytd |-> 0, taxes_paid_ytd |-> 0, prng_state |-> None,
     seen_at_append |-> <<>>]

RECURSIVE SumValues(_)
\* sum(asset.value for asset in assets): left to right from the int 0
SumValues(assets) ==
    IF assets = <<>> THEN 0
    ELSE DAdd(SumValues(SubSeq(assets, 1, Len(assets) - 1)),
              assets[Len(assets)].value)

RECURSIVE SumPrincipal(_)
SumPrincipal(debts) ==
    IF debts = <<>> THEN 0
    ELSE DAdd(SumPrincipal(SubSeq(debts, 1, Len(debts) - 1)),
              debts[Len(debts)].principal)

RECURSIVE SumMissed(_)
SumMissed(debts) ==
    IF debts = <<>> THEN 0
    ELSE SumMissed(SubSeq(debts, 1, Len(debts) - 1)) + debts[Len(debts)].missed_payments

IsLiquid(a) == a.is_liquid

get_total_assets(state) == SumValues(state.assets)

get_total_debt(state) == SumPrincipal(state.debts)

get_net_worth(state) ==
    DSub(DAdd(state.balance, get_total_assets(state)), get_total_debt(state))

get_liquid_assets(state) == SumValues(SelectSeq(state.assets, IsLiquid))

\* state.transaction_history.append(transaction)
AppendTransaction(state, transaction) ==
    [state EXCEPT !.transaction_history = Append(@, transaction),
                  !.seen_at_append = Append(@, state.balance)]

\* index of the asset called name in state.assets, 0 when absent
AssetIndex(assets, name) ==
    IF \E i \in 1..Len(assets) : assets[i].name = name
    THEN CHOOSE i \in 1..Len(assets) : assets[i].name = name
    ELSE 0

(***************************************************************************)
(* Nodes (dag_engine.Node and nodes/*.py).  A node object is a record of    *)
(* its id, dependencies, last_value, parameters and bookkeeping.  Each      *)
(* execute takes the node, the wallet state and the execution context and   *)
(* gives their new values and the returned amount.                          *)
(***************************************************************************)

Node(node_id, kind, dependencies) ==
    [node_id |-> node_id, kind |-> kind, dependencies |-> dependencies,
     last_value |-> None]

ExecutionContext(current_date, prng) ==
    [current_date |-> current_date, prng |-> prng, node_outputs |-> <<>>]

Outcome(node, state, context, result) ==
    [node |-> node, state |-> state, context |-> context, result |-> result]

\* ---- nodes/income_node.py ----

SalaryNode(node_id, annual_salary, payment_day, dependencies) ==
    [node_id |-> node_id, kind |-> "SalaryNode", dependencies |-> dependencies,
     last_value |-> None, annual_salary |-> annual_salary,
     monthly_salary |-> DDiv(annual_salary, Dec(12, 0)),
     payment_day |-> payment_day, last_payment_month |-> None]

\* the once-a-month guard shared by the salary, fixed-expense and debt nodes
IsPaymentDue(node, current_date) ==
    /\ current_date.day = node.payment_day
    /\ \/ node.last_payment_month = None
       \/ Some(current_date.month) # node.last_payment_month

SalaryExecute(node, state, context) ==
    LET current_date == context.current_date IN
    IF IsPaymentDue(node, current_date)
    THEN LET s1 == [state EXCEPT
                      !.balance = DAdd(@, node.monthly_salary),
                      !.total_income_ytd = DAdd(@, node.monthly_salary)]
             transaction == Transaction(current_date, node.monthly_salary,
                               <<"Salary payment">>, "income:salary", s1.balance)
         IN Outcome([node EXCEPT !.last_payment_month = Some(current_date.month)],
                    AppendTransaction(s1, transaction), context,
                    node.monthly_salary)
    ELSE Outcome(node, state, context, 0)

VariableIncomeNode(node_id, mean_monthly, std_dev, payment_probability, dependencies) ==
    [node_id |-> node_id, kind |-> "VariableIncomeNode",
     dependencies |-> dependencies, last_value |-> None,
     mean_monthly |-> mean_monthly, std_dev |-> std_dev,
     payment_probability |-> payment_probability]

VariableIncomeExecute(node, state, context) ==
    LET u == Random(context.prng) IN
    IF u.value < ToFloat(node.payment_probability)
    THEN LET g == Gauss(u.prng, ToFloat(node.mean_monthly), ToFloat(node.std_dev))
             amount == Max(0, FromFloat(g.value))
             s1 == [state EXCEPT !.balance = DAdd(@, amount),
                                 !.total_income_ytd = DAdd(@, amount)]
             transaction == Transaction(context.current_date, amount,
                               <<"Variable income">>, "income:variable", s1.balance)
         IN Outcome(node, AppendTransaction(s1, transaction),
                    [context EXCEPT !.prng = g.prng], amount)
    ELSE Outcome(node, state, [context EXCEPT !.prng = u.prng], 0)

InvestmentReturnNode(node_id, annual_return_rate, dependencies) ==
    [node_id |-> node_id, kind |-> "InvestmentReturnNode",
     dependencies |-> dependencies, last_value |-> None,
     annual_return_rate |-> annual_return_rate,
     daily_return_rate |-> DDiv(annual_return_rate, Dec(365, 0))]

investable_types == {"stocks", "bonds", "crypto"}

RECURSIVE ApplyReturns(_, _, _, _, _)
\* the loop over state.assets.items() from position i on
ApplyReturns(node, assets, prng, total_return, i) ==
    IF i > Len(assets)
    THEN [assets |-> assets, prng |-> prng, total_return |-> total_return]
    ELSE IF assets[i].asset_type \in investable_types
    THEN LET g == Gauss(prng, Dec(1, 0), Dec(1, 2))
             daily_gain == DMul(DMul(assets[i].value, node.daily_return_rate),
                                FromFloat(g.value))
         IN ApplyReturns(node,
                [assets EXCEPT ![i].value = DAdd(@, daily_gain)],
                g.prng, DAdd(total_return, daily_gain), i + 1)
    ELSE ApplyReturns(node, assets, prng, total_return, i + 1)

InvestmentReturnExecute(node, state, context) ==
    LET r == ApplyReturns(node, state.assets, context.prng, 0, 1)
        s0 == [state EXCEPT !.assets = r.assets]
        c1 == [context EXCEPT !.prng = r.prng]
    IN IF r.total_return # 0
       THEN LET s1 == [s0 EXCEPT !.balance = DAdd(@, r.total_return),
                                 !.total_income_ytd = DAdd(@, r.total_return)]
                transaction == Transaction(context.current_date, r.total_return,
                                  <<"Investment returns">>, "income:investment",
                                  s1.balance)
            IN Outcome(node, AppendTransaction(s1, transaction), c1, r.total_return)
       ELSE Outcome(node, s0, c1, r.total_return)

\* ---- nodes/expense_node.py ----

FixedExpenseNode(node_id, amount, payment_day, description, dependencies) ==
    [node_id |-> node_id, kind |-> "FixedExpenseNode",
     dependencies |-> dependencies, last_value |-> None, amount |-> amount,
     payment_day |-> payment_day, description |-> description,
     last_payment_month |-> None]

FixedExpenseExecute(node, state, context) ==
    LET current_date == context.current_date IN
    IF IsPaymentDue(node, current_date)
    THEN LET s1 == [state EXCEPT !.balance = DSub(@, node.amount),
                                 !.total_expenses_ytd = DAdd(@, node.amount)]
             transaction == Transaction(current_date, -node.amount,
                               node.description, "expense:fixed", s1.balance)
         IN Outcome([node EXCEPT !.last_payment_month = Some(current_date.month)],
                    AppendTransaction(s1, transaction), context, node.amount)
    ELSE Outcome(node, state, context, 0)

VariableExpenseNode(node_id, daily_mean, daily_std_dev, description, dependencies) ==
    [node_id |-> node_id, kind |-> "VariableExpenseNode",
     dependencies |-> dependencies, last_value |-> None,
     daily_mean |-> daily_mean, daily_std_dev |-> daily_std_dev,
     description |-> description]

VariableExpenseExecute(node, state, context) ==
    LET g == Gauss(context.prng, ToFloat(node.daily_mean), ToFloat(node.daily_std_dev))
        amount == Max(0, FromFloat(g.value))
        s1 == [state EXCEPT !.balance = DSub(@, amount),
                            !.total_expenses_ytd = DAdd(@, amount)]
        transaction == Transaction(context.current_date, -amount,
                          node.description, "expense:variable", s1.balance)
    IN Outcome(node, AppendTransaction(s1, transaction),
               [context EXCEPT !.prng = g.prng], amount)

\* the pure predicates a ConditionalExpenseNode is built with
Holds(condition, state, context) ==
    CASE condition = "always" -> TRUE
      [] condition = "balance_positive" -> state.balance > 0
      [] condition = "first_of_month" -> context.current_date.day = 1

ConditionalExpenseNode(node_id, amount, condition, description, dependencies) ==
    [node_id |-> node_id, kind |-> "ConditionalExpenseNode",
     dependencies |-> dependencies, last_value |-> None, amount |-> amount,
     condition |-> condition, description |-> description]

ConditionalExpenseExecute(node, state, context) ==
    IF Holds(node.condition, state, context)
    THEN LET s1 == [state EXCEPT !.balance = DSub(@, node.amount),
                                 !.total_expenses_ytd = DAdd(@, node.amount)]
             transaction == Transaction(context.current_date, -node.amount,
                               node.description, "expense:conditional", s1.balance)
         IN Outcome(node, AppendTransaction(s1, transaction), context, node.amount)
    ELSE Outcome(node, state, context, 0)

DebtPaymentNode(node_id, payment_day, dependencies) ==
    [node_id |-> node_id, kind |-> "DebtPaymentNode",
     dependencies |-> dependencies, last_value |-> None,
     payment_day |-> payment_day, last_payment_month |-> None]

RECURSIVE PayDebts(_, _, _, _)
\* the loop over state.debts from position i on
PayDebts(state, current_date, total_payment, i) ==
    IF i > Len(state.debts)
    THEN [state |-> state, total_payment |-> total_payment]
    ELSE LET debt == state.debts[i] IN
         IF state.balance >= debt.monthly_payment
         THEN LET monthly_interest_rate == DDiv(debt.interest_rate, Dec(12, 0))
                  interest == DMul(debt.principal, monthly_interest_rate)
                  principal_payment == DSub(debt.monthly_payment, interest)
                  s1 == [state EXCEPT
                           !.balance = DSub(@, debt.monthly_payment),
                           !.debts[i].principal =
                               Max(0, DSub(debt.principal, principal_payment))]
                  transaction == Transaction(current_date, -debt.monthly_payment,
                                    <<"Debt payment", debt.name>>, "expense:debt",
                                    s1.balance)
              IN PayDebts(AppendTransaction(s1, transaction), current_date,
                          DAdd(total_payment, debt.monthly_payment), i + 1)
         ELSE PayDebts([state EXCEPT !.debts[i].missed_payments = @ + 1],
                       current_date, total_payment, i + 1)

DebtPaymentExecute(node, state, context) ==
    LET current_date == context.current_date IN
    IF IsPaymentDue(node, current_date)
    THEN LET r == PayDebts(state, current_date, 0, 1)
         IN Outcome([node EXCEPT !.last_payment_month = Some(current_date.month)],
                    [r.state EXCEPT !.total_expenses_ytd = DAdd(@, r.total_payment)],
                    context, r.total_payment)
    ELSE Outcome(node, state, context, 0)

\* ---- nodes/asset_node.py ----

AssetPortfolioNode(node_id, dependencies) ==
    [node_id |-> node_id, kind |-> "AssetPortfolioNode",
     dependencies |-> dependencies, last_value |-> None]

AssetPortfolioExecute(node, state, context) ==
    Outcome(node, state, context, get_total_assets(state))

LiquidationNode(node_id, min_balance_threshold, dependencies) ==
    [node_id |-> node_id, kind |-> "LiquidationNode",
     dependencies |-> dependencies, last_value |-> None,
     min_balance_threshold |-> min_balance_threshold]

\* the asset names in use, in string order
NameOrder ==
    <<"bonds", "bonds_portfolio", "crypto", "crypto_portfolio",
      "emergency_bonds", "house", "stock_portfolio", "stocks",
      "stocks_portfolio">>

NameRank(name) == CHOOSE i \in 1..Len(NameOrder) : NameOrder[i] = name

\* tuple order of the heap entries (float(penalty), name, asset)
HeapLess(a, b) ==
    \/ ToFloat(a.liquidation_penalty) < ToFloat(b.liquidation_penalty)
    \/ /\ ToFloat(a.liquidation_penalty) = ToFloat(b.liquidation_penalty)
       /\ NameRank(a.name) < NameRank(b.name)

\* heapq.heappop: the least entry of the queue (a set of asset names)
HeapPop(assets, queue) ==
    CHOOSE n \in queue : \A m \in queue \ {n} :
        HeapLess(assets[AssetIndex(assets, n)], assets[AssetIndex(assets, m)])

RECURSIVE LiquidateLoop(_, _, _, _, _, _)

\* one pass of the loop for the popped asset of the given name and penalty
\* (Decimal(str(penalty)) of the heap entry's float)
LiquidateAsset(state, current_date, queue, deficit, total_liquidated, assets_to_remove, name, penalty) ==
    LET i == AssetIndex(state.assets, name)
        net_value == DMul(state.assets[i].value, DSub(Dec(1, 0), penalty))
    IN IF net_value >= deficit
       THEN LET amount_needed == DDiv(deficit, DSub(Dec(1, 0), penalty))
                proceeds == DMul(amount_needed, DSub(Dec(1, 0), penalty))
                s1 == [state EXCEPT !.assets[i].value = DSub(@, amount_needed),
                                    !.balance = DAdd(@, proceeds)]
                transaction == Transaction(current_date, proceeds,
                    <<"Partial liquidation of", name, DMul(penalty, Dec(100, 0))>>,
                    "liquidation", s1.balance)
            IN LiquidateLoop(AppendTransaction(s1, transaction), current_date,
                   queue \ {name}, 0, DAdd(total_liquidated, proceeds),
                   assets_to_remove)
       ELSE LET s1 == [state EXCEPT !.balance = DAdd(@, net_value)]
                transaction == Transaction(current_date, net_value,
                    <<"Full liquidation of", name, DMul(penalty, Dec(100, 0))>>,
                    "liquidation", s1.balance)
            IN LiquidateLoop(AppendTransaction(s1, transaction), current_date,
                   queue \ {name}, DSub(deficit, net_value),
                   DAdd(total_liquidated, net_value),
                   assets_to_remove \cup {name})

\* the penalty of the named asset as the loop reads it back from the heap
\* entry
PenaltyOf(assets, name) ==
    FromFloat(ToFloat(assets[AssetIndex(assets, name)].liquidation_penalty))

\* while deficit > 0 and asset_queue
LiquidateLoop(state, current_date, queue, deficit, total_liquidated, assets_to_remove) ==
    IF ~(deficit > 0 /\ queue # {})
    THEN [state |-> state, total_liquidated |-> total_liquidated,
          assets_to_remove |-> assets_to_remove]
    ELSE LiquidateAsset(state, current_date, queue, deficit, total_liquidated,
                        assets_to_remove, HeapPop(state.assets, queue),
                        PenaltyOf(state.assets, HeapPop(state.assets, queue)))

\* del state.assets[name] for every name in names
RemoveAssets(assets, names) == SelectSeq(assets, LAMBDA a : a.name \notin names)

LiquidationExecute(node, state, context) ==
    IF state.balance >= node.min_balance_threshold
    THEN Outcome(node, state, context, 0)
    ELSE LET deficit == DSub(node.min_balance_threshold, state.balance)
             queue == {state.assets[i].name :
                         i \in {j \in 1..Len(state.assets) : state.assets[j].is_liquid}}
             r == LiquidateLoop(state, context.current_date, queue, deficit, 0, {})
         IN Outcome(node,
                    [r.state EXCEPT !.assets = RemoveAssets(@, r.assets_to_remove)],
                    context, r.total_liquidated)

AssetPurchaseNode(node_id, target_asset_type, investment_threshold, investment_percentage, dependencies) ==
    [node_id |-> node_id, kind |-> "AssetPurchaseNode",
     dependencies |-> dependencies, last_value |-> None,
     target_asset_type |-> target_asset_type,
     investment_threshold |-> investment_threshold,
     investment_percentage |-> investment_percentage]

\* f"{target_asset_type}_portfolio"
PortfolioName(target_asset_type) ==
    CASE target_asset_type = "stocks" -> "stocks_portfolio"
      [] target_asset_type = "bonds" -> "bonds_portfolio"
      [] target_asset_type = "crypto" -> "crypto_portfolio"

\* a purchase that adds the amount to the holding and leaves the balance and
\* the history alone
PurchaseKeepsBalance(node, state, context) ==
    LET surplus == DSub(state.balance, node.investment_threshold) IN
    IF surplus > 0
    THEN LET investment_amount == DMul(surplus, node.investment_percentage)
             asset_name == PortfolioName(node.target_asset_type)
             i == AssetIndex(state.assets, asset_name)
             assets1 == IF i # 0
                        THEN [state.assets EXCEPT ![i].value = DAdd(@, investment_amount)]
                        ELSE Append(state.assets,
                                 Asset(asset_name, node.target_asset_type,
                                       investment_amount, TRUE, Dec(2, 2)))
         IN Outcome(node, [state EXCEPT !.assets = assets1], context,
                    investment_amount)
    ELSE Outcome(node, state, context, 0)

AssetPurchaseExecute(node, state, context) ==
    LET surplus == DSub(state.balance, node.investment_threshold) IN
    IF surplus > 0
    THEN LET investment_amount == DMul(surplus, node.investment_percentage)
             asset_name == PortfolioName(node.target_asset_type)
             i == AssetIndex(state.assets, asset_name)
             assets1 == IF i # 0
                        THEN [state.assets EXCEPT ![i].value = DAdd(@, investment_amount)]
                        ELSE Append(state.assets,
                                 Asset(asset_name, node.target_asset_type,
                                       investment_amount, TRUE, Dec(2, 2)))
             s1 == [state EXCEPT !.assets = assets1,
                                 !.balance = DSub(@, investment_amount)]
             transaction == Transaction(context.current_date, -investment_amount,
                               <<"Investment in", asset_name>>, "investment",
                               s1.balance)
         IN Outcome(node, AppendTransaction(s1, transaction), context,
                    investment_amount)
    ELSE Outcome(node, state, context, 0)

\* ---- nodes/tax_node.py ----

TaxBracket(lower_bound, upper_bound, rate) ==
    [lower_bound |-> lower_bound, upper_bound |-> upper_bound, rate |-> rate]

\* the default brackets of IncomeTaxNode.__init__
DefaultBrackets ==
    <<TaxBracket(0, Some(Dec(10000, 0)), Dec(10, 2)),
      TaxBracket(Dec(10000, 0), Some(Dec(40000, 0)), Dec(12, 2)),
      TaxBracket(Dec(40000, 0), Some(Dec(85000, 0)), Dec(22, 2)),
      TaxBracket(Dec(85000, 0), Some(Dec(160000, 0)), Dec(24, 2)),
      TaxBracket(Dec(160000, 0), None, Dec(32, 2))>>

IncomeTaxNode(node_id, tax_brackets, payment_month, payment_day, dependencies) ==
    [node_id |-> node_id, kind |-> "IncomeTaxNode",
     dependencies |-> dependencies, last_value |-> None,
     brackets |-> tax_brackets, payment_month |-> payment_month,
     payment_day |-> payment_day, last_payment_year |-> None]

RECURSIVE TaxLoop(_, _, _, _)
\* for bracket in self.brackets, from position i on
TaxLoop(brackets, total_tax, remaining_income, i) ==
    IF i > Len(brackets) \/ remaining_income <= 0 THEN total_tax
    ELSE LET bracket == brackets[i]
             taxable_in_bracket ==
                 IF bracket.upper_bound = None THEN remaining_income
                 ELSE Min(remaining_income,
                          DSub(bracket.upper_bound[1], bracket.lower_bound))
             tax_in_bracket == DMul(taxable_in_bracket, bracket.rate)
         IN TaxLoop(brackets, DAdd(total_tax, tax_in_bracket),
                    DSub(remaining_income, taxable_in_bracket), i + 1)

\* one rate on the whole income
FlatTax(node, income) == DMul(income, node.brackets[1].rate)

calculate_tax(node, income) ==
    IF income <= 0 THEN 0 ELSE TaxLoop(node.brackets, 0, income, 1)

IncomeTaxExecute(node, state, context) ==
    LET current_date == context.current_date IN
    IF /\ current_date.month = node.payment_month
       /\ current_date.day = node.payment_day
       /\ \/ node.last_payment_year = None
          \/ Some(current_date.year) # node.last_payment_year
    THEN LET tax_owed == calculate_tax(node, state.total_income_ytd)
             s1 == [state EXCEPT !.balance = DSub(@, tax_owed),
                                 !.taxes_paid_ytd = DAdd(@, tax_owed)]
             transaction == Transaction(current_date, -tax_owed,
                               <<"Annual income tax">>, "tax:income", s1.balance)
         IN Outcome([node EXCEPT !.last_payment_year = Some(current_date.year)],
                    AppendTransaction(s1, transaction), context, tax_owed)
    ELSE Outcome(node, state, context, 0)

CapitalGainsTaxNode(node_id, tax_rate, dependencies) ==
    [node_id |-> node_id, kind |-> "CapitalGainsTaxNode",
     dependencies |-> dependencies, last_value |-> None, tax_rate |-> tax_rate,
     last_calculated_date |-> None]

CapitalGainsTaxExecute(node, state, context) == Outcome(node, state, context, 0)

\* ---- nodes/credit_node.py ----

CreditScoreNode(node_id, alpha, dependencies) ==
    [node_id |-> node_id, kind |-> "CreditScoreNode",
     dependencies |-> dependencies, last_value |-> None, alpha |-> alpha,
     last_update_date |-> None]

calculate_debt_ratio_impact(state) ==
    LET total_debt == get_total_debt(state)
        annual_income == IF state.total_income_ytd = 0 THEN Dec(50000, 0)
                         ELSE state.total_income_ytd
        debt_ratio == DDiv(total_debt, annual_income)
    IN IF debt_ratio < Dec(3, 1) THEN Dec(2, 0)
       ELSE IF debt_ratio < Dec(5, 1) THEN 0
       ELSE Dec(-3, 0)

calculate_punctuality_impact(state) ==
    LET total_missed == SumMissed(state.debts)
    IN IF total_missed = 0 THEN Dec(1, 0)
       ELSE IF total_missed <= 2 THEN Dec(-2, 0)
       ELSE Dec(-5, 0)

calculate_balance_impact(state) ==
    IF state.balance > Dec(10000, 0) THEN Dec(1, 0)
    ELSE IF state.balance > 0 THEN Dec(5, 1)
    ELSE IF state.balance > Dec(-1000, 0) THEN Dec(-1, 0)
    ELSE Dec(-3, 0)

\* the score left unclamped
UnclampedScore(new_score) == new_score

\* max(Decimal("300"), min(Decimal("850"), new_score))
ClampScore(new_score) == Max(Dec(300, 0), Min(Dec(850, 0), new_score))

CreditScoreExecute(node, state, context) ==
    LET debt_impact == calculate_debt_ratio_impact(state)
        punctuality_impact == calculate_punctuality_impact(state)
        balance_impact == calculate_balance_impact(state)
        total_impact == DAdd(DAdd(debt_impact, punctuality_impact), balance_impact)
        change == DMul(node.alpha, total_impact)
        new_score == DAdd(state.credit_score, change)
        s1 == [state EXCEPT !.credit_score = ClampScore(new_score)]
    IN Outcome([node EXCEPT !.last_update_date = Some(context.current_date)],
               s1, context, s1.credit_score)

BankruptcyCheckNode(node_id, bankruptcy_threshold, dependencies) ==
    [node_id |-> node_id, kind |-> "BankruptcyCheckNode",
     dependencies |-> dependencies, last_value |-> None,
     bankruptcy_threshold |-> bankruptcy_threshold, is_bankrupt |-> FALSE]

BankruptcyCheckExecute(node, state, context) ==
    LET liquid_assets == get_liquid_assets(state)
        net_worth == get_net_worth(state)
    IN IF net_worth < node.bankruptcy_threshold /\ liquid_assets < Dec(100, 0)
       THEN LET s1 == [state EXCEPT !.credit_score = Dec(300, 0)]
                transaction == Transaction(context.current_date, 0,
                                  <<"Bankruptcy event">>, "bankruptcy", s1.balance)
            IN Outcome([node EXCEPT !.is_bankrupt = TRUE],
                       AppendTransaction(s1, transaction), context, Dec(1, 0))
       ELSE Outcome(node, state, context, 0)

\* node.execute(state, context), dispatched on the node's class
Execute(node, state, context) ==
    CASE node.kind = "SalaryNode" -> SalaryExecute(node, state, context)
      [] node.kind = "VariableIncomeNode" -> VariableIncomeExecute(node, state, context)
      [] node.kind = "InvestmentReturnNode" -> InvestmentReturnExecute(node, state, context)
      [] node.kind = "FixedExpenseNode" -> FixedExpenseExecute(node, state, context)
      [] node.kind = "VariableExpenseNode" -> VariableExpenseExecute(node, state, context)
      [] node.kind = "ConditionalExpenseNode" -> ConditionalExpenseExecute(node, state, context)
      [] node.kind = "DebtPaymentNode" -> DebtPaymentExecute(node, state, context)
      [] node.kind = "AssetPortfolioNode" -> AssetPortfolioExecute(node, state, context)
      [] node.kind = "LiquidationNode" -> LiquidationExecute(node, state, context)
      [] node.kind = "AssetPurchaseNode" -> AssetPurchaseExecute(node, state, context)
      [] node.kind = "IncomeTaxNode" -> IncomeTaxExecute(node, state, context)
      [] node.kind = "CapitalGainsTaxNode" -> CapitalGainsTaxExecute(node, state, context)
      [] node.kind = "CreditScoreNode" -> CreditScoreExecute(node, state, context)
      [] node.kind = "BankruptcyCheckNode" -> BankruptcyCheckExecute(node, state, context)

(***************************************************************************)
(* SpecLiq: LiquidationNode.execute called once on a wallet drawn from the  *)
(* bounded inputs below.                                                    *)
(***************************************************************************)

\* most assets in a wallet of the single-operation specifications
MaxAssets == 2

LiqNames == <<"bonds", "stocks", "house">>

LiqTypes == [bonds |-> "bonds", stocks |-> "stocks", house |-> "real_estate"]

LiqValues == {Dec(1, 0), Dec(5, 0)}

\* 0.101 and 0.1 are different decimals that float() maps to one float
LiqPenalties == {0, Dec(1, 1), Dec(101, 3), Dec(5, 1), Dec(1, 0)}

LiqBalances == {Dec(-3, 0), Dec(-1, 0), 0, Dec(1, 0)}

LiqThresholds == {0, Dec(2, 0)}

RECURSIVE Portfolios(_)
\* the asset dicts over the first n names of LiqNames, at most MaxAssets entries
Portfolios(n) ==
    IF n = 0 THEN {<<>>}
    ELSE LET rest == Portfolios(n - 1)
             name == LiqNames[n]
         IN rest \cup
            {Append(p, Asset(name, LiqTypes[name], v, l, q)) :
                p \in {r \in rest : Len(r) < MaxAssets},
                v \in LiqValues, l \in BOOLEAN, q \in LiqPenalties}

LiqDate == Date(2024, 1, 1)

LiqInit ==
    /\ dags = <<>>
    /\ engines = <<>>
    /\ managers = <<>>
    /\ heap = <<>>
    /\ \E b \in LiqBalances, t \in LiqThresholds, p \in Portfolios(Len(LiqNames)) :
          unit = [pc |-> "ready",
                  node |-> LiquidationNode("auto_liquidation", t, <<>>),
                  before |-> [WalletState(LiqDate, b, Dec(700, 0)) EXCEPT !.assets = p],
                  state |-> [WalletState(LiqDate, b, Dec(700, 0)) EXCEPT !.assets = p],
                  result |-> None]

LiqExecute ==
    /\ unit.pc = "ready"
    /\ LET out == LiquidationExecute(unit.node, unit.state,
                                     ExecutionContext(LiqDate, NewRandom(0)))
       IN unit' = [unit EXCEPT !.pc = "done", !.state = out.state,
                               !.result = Some(out.result)]
    /\ UNCHANGED <<dags, engines, managers, heap>>

LiqNext == LiqExecute

SpecLiq == LiqInit /\ [][LiqNext]_vars

\* C6: immediately after LiquidationNode.execute returns, either the balance
\* is at least min_balance_threshold or the liquid assets sum to 0.
LiquidationInvariant ==
    unit.pc = "done" =>
        \/ unit.state.balance >= unit.node.min_balance_threshold
        \/ get_liquid_assets(unit.state) = 0


\* the asset called name in the dict assets
AssetNamed(assets, name) == assets[AssetIndex(assets, name)]

\* a comes before b in ascending order of (liquidation_penalty, name)
SoldBefore(a, b) ==
    \/ a.liquidation_penalty < b.liquidation_penalty
    \/ /\ a.liquidation_penalty = b.liquidation_penalty
       /\ NameRank(a.name) < NameRank(b.name)

\* the names of the assets of the wallet before the call that the call
\* removed or left with another value
Touched(before, after) ==
    {before[i].name : i \in {j \in DOMAIN before :
        \/ AssetIndex(after, before[j].name) = 0
        \/ AssetNamed(after, before[j].name).value # before[j].value}}

\* the names of the assets the call left in the wallet with another value
PartlySold(before, after) ==
    {n \in Touched(before, after) : AssetIndex(after, n) # 0}

\* C32: LiquidationNode sells the liquid assets in ascending order of
\* (liquidation_penalty, name): an asset is sold, wholly or in part, only
\* when every liquid asset before it in that order was sold wholly and
\* removed; at most one asset is sold in part; the illiquid assets are as
\* they were.
LiquidationOrdering ==
    unit.pc = "done" =>
        LET before == unit.before.assets
            after == unit.state.assets
        IN /\ \A n \in Touched(before, after) :
                  /\ AssetNamed(before, n).is_liquid
                  /\ \A i \in DOMAIN before :
                         (before[i].is_liquid
                              /\ SoldBefore(before[i], AssetNamed(before, n))) =>
                             AssetIndex(after, before[i].name) = 0
           /\ Cardinality(PartlySold(before, after)) <= 1
           /\ \A i \in DOMAIN after : AssetIndex(before, after[i].name) # 0

\* the bonds at penalty 0.101 are sold in part while the stocks at penalty
\* 0.1 are whole
LiquidationOrderingCounterexample ==
    /\ unit.pc = "done"
    /\ {unit.before.assets[i].name : i \in DOMAIN unit.before.assets}
           = {"bonds", "stocks"}
    /\ AssetNamed(unit.before.assets, "bonds").liquidation_penalty = Dec(101, 3)
    /\ AssetNamed(unit.before.assets, "stocks").liquidation_penalty = Dec(1, 1)
    /\ AssetNamed(unit.before.assets, "stocks").is_liquid
    /\ PartlySold(unit.before.assets, unit.state.assets) = {"bonds"}
    /\ AssetNamed(unit.state.assets, "stocks") = AssetNamed(unit.before.assets, "stocks")

\* C33: after LiquidationNode.execute every asset of the wallet has a value
\* of 0 or more, and an asset the call has sold down to the value 0, by a
\* full or by an exactly covering partial liquidation, is no longer in the
\* wallet.
AssetValuesAtRest ==
    unit.pc = "done" =>
        LET before == unit.before.assets
            after == unit.state.assets
        IN /\ \A i \in DOMAIN after : after[i].value >= 0
           /\ \A n \in PartlySold(before, after) : AssetNamed(after, n).value # 0

\* a deficit of 5 met by the whole of an asset worth 5 at no penalty, and
\* the asset still in the wallet at value 0
AssetValuesAtRestCounterexample ==
    /\ unit.pc = "done"
    /\ unit.before.balance = Dec(-3, 0)
    /\ unit.node.min_balance_threshold = Dec(2, 0)
    /\ unit.state.balance = Dec(2, 0)
    /\ \E i \in DOMAIN unit.before.assets :
          /\ unit.before.assets[i].value = Dec(5, 0)
          /\ unit.before.assets[i].liquidation_penalty = 0
          /\ AssetIndex(unit.state.assets, unit.before.assets[i].name) # 0
          /\ AssetNamed(unit.state.assets, unit.before.assets[i].name).value = 0

(***************************************************************************)
(* The component DAG (dag_engine.py).                                      *)
(*                                                                         *)
(* nx.DiGraph keeps its nodes, and each node's successors, in insertion    *)
(* order.  The graph is held as the sequence of its nodes and the sequence *)
(* of its edges <<u, v>> in the order they were added, which gives both.   *)
(***************************************************************************)

SeqFilterOut(seq, x) == SelectSeq(seq, LAMBDA e : e # x)

Contains(seq, x) == \E i \in DOMAIN seq : seq[i] = x

DiGraph == [node |-> <<>>, edges |-> <<>>]

\* G.add_node(n): an existing node keeps its place
GraphAddNode(g, n) ==
    IF Contains(g.node, n) THEN g ELSE [g EXCEPT !.node = Append(@, n)]

\* G.add_edge(u, v): adds u, then v, when they are not yet in the graph
GraphAddEdge(g, u, v) ==
    LET g2 == GraphAddNode(GraphAddNode(g, u), v)
    IN IF Contains(g2.edges, <<u, v>>) THEN g2
       ELSE [g2 EXCEPT !.edges = Append(@, <<u, v>>)]

\* G.remove_node(n): the node goes with every edge into and out of it
GraphRemoveNode(g, n) ==
    [node |-> SeqFilterOut(g.node, n),
     edges |-> SelectSeq(g.edges, LAMBDA e : e[1] # n /\ e[2] # n)]

\* G.neighbors(n): successors in the order their edges were added
RECURSIVE Neighbors(_, _, _)
Neighbors(g, n, i) ==
    IF i > Len(g.edges) THEN <<>>
    ELSE (IF g.edges[i][1] = n THEN <<g.edges[i][2]>> ELSE <<>>)
         \o Neighbors(g, n, i + 1)

InDegree(g, v) == Cardinality({i \in DOMAIN g.edges : g.edges[i][2] = v})

\* the children visited while one generation is processed, in visiting order
RECURSIVE ChildrenOf(_, _, _)
ChildrenOf(g, generation, i) ==
    IF i > Len(generation) THEN <<>>
    ELSE Neighbors(g, generation[i], 1) \o ChildrenOf(g, generation, i + 1)

\* indegree_map[child] -= 1 for each visited child; a child whose count
\* reaches 0 joins the next generation
RECURSIVE NextGeneration(_, _, _, _)
NextGeneration(children, i, indegree_map, zero_indegree) ==
    IF i > Len(children)
    THEN [indegree_map |-> indegree_map, zero_indegree |-> zero_indegree]
    ELSE LET child == children[i]
             m2 == [indegree_map EXCEPT ![child] = @ - 1]
         IN NextGeneration(children, i + 1, m2,
                IF m2[child] = 0 THEN Append(zero_indegree, child)
                ELSE zero_indegree)

RECURSIVE Generations(_, _, _)
Generations(g, indegree_map, zero_indegree) ==
    IF zero_indegree = <<>> THEN <<>>
    ELSE LET nxt == NextGeneration(ChildrenOf(g, zero_indegree, 1), 1,
                                   indegree_map, <<>>)
         IN zero_indegree \o Generations(g, nxt.indegree_map, nxt.zero_indegree)

\* list(nx.topological_sort(G)): the topological generations, one after
\* another; on a graph with a cycle the nodes on or behind the cycle are
\* never emitted
topological_sort(g) ==
    Generations(g,
        [v \in {g.node[i] : i \in DOMAIN g.node} |-> InDegree(g, v)],
        SelectSeq(g.node, LAMBDA v : InDegree(g, v) = 0))

is_directed_acyclic_graph(g) == Len(topological_sort(g)) = Len(g.node)

DAGEngine == [nodes |-> <<>>, graph |-> DiGraph,
              execution_order |-> <<>>, dirty |-> TRUE]

NodeIds(dag) == {dag.nodes[i].node_id : i \in DOMAIN dag.nodes}

NodeIndex(dag, node_id) ==
    CHOOSE i \in DOMAIN dag.nodes : dag.nodes[i].node_id = node_id

get_node(dag, node_id) == dag.nodes[NodeIndex(dag, node_id)]

RECURSIVE AddEdges(_, _, _, _)
AddEdges(g, dependencies, node_id, i) ==
    IF i > Len(dependencies) THEN g
    ELSE AddEdges(GraphAddEdge(g, dependencies[i], node_id),
                  dependencies, node_id, i + 1)

\* an add_node that takes the place of a node already registered under the id
AddNodeOverwriting(dag, node) ==
    [dag |-> [dag EXCEPT
                !.nodes = Append(SelectSeq(@, LAMBDA n : n.node_id # node.node_id),
                                 node),
                !.graph = AddEdges(GraphAddNode(@, node.node_id),
                                   node.dependencies, node.node_id, 1),
                !.dirty = TRUE],
     raised |-> "no"]

\* DAGEngine.add_node; raised = "ValueError" leaves the DAG as it was
add_node(dag, node) ==
    IF node.node_id \in NodeIds(dag)
    THEN [dag |-> dag, raised |-> "ValueError"]
    ELSE [dag |-> [dag EXCEPT
                     !.nodes = Append(@, node),
                     !.graph = AddEdges(GraphAddNode(@, node.node_id),
                                        node.dependencies, node.node_id, 1),
                     !.dirty = TRUE],
          raised |-> "no"]

\* a remove_node without the membership test
RemoveNodeUnguarded(dag, node_id) ==
    [dag EXCEPT
       !.nodes = SelectSeq(@, LAMBDA n : n.node_id # node_id),
       !.graph = GraphRemoveNode(@, node_id),
       !.dirty = TRUE]

remove_node(dag, node_id) ==
    IF node_id \in NodeIds(dag)
    THEN [dag EXCEPT
            !.nodes = SelectSeq(@, LAMBDA n : n.node_id # node_id),
            !.graph = GraphRemoveNode(@, node_id),
            !.dirty = TRUE]
    ELSE dag

\* DAGEngine.validate_dag: TRUE, or FALSE where the code raises ValueError
validate_dag(dag) ==
    /\ is_directed_acyclic_graph(dag.graph)
    /\ \A i \in DOMAIN dag.nodes :
          \A j \in DOMAIN dag.nodes[i].dependencies :
              dag.nodes[i].dependencies[j] \in NodeIds(dag)

build_execution_order(dag) ==
    IF ~dag.dirty /\ dag.execution_order # <<>>
    THEN [dag |-> dag, order |-> dag.execution_order, raised |-> "no"]
    ELSE IF ~validate_dag(dag)
    THEN [dag |-> dag, order |-> <<>>, raised |-> "ValueError"]
    ELSE LET order == topological_sort(dag.graph)
         IN [dag |-> [dag EXCEPT !.execution_order = order, !.dirty = FALSE],
             order |-> order, raised |-> "no"]

RECURSIVE BuildDag(_, _, _)
\* dag.add_node(nodes[i]) for each node in turn
BuildDag(dag, nodes, i) ==
    IF i > Len(nodes) THEN dag
    ELSE BuildDag(add_node(dag, nodes[i]).dag, nodes, i + 1)

(***************************************************************************)
(* The object heap.  WalletState, Asset and Debt objects are mutable and    *)
(* are passed by reference; heap[ref] is the object behind a reference.     *)
(* A WalletState object holds its assets dict as <<key, ref>> pairs in      *)
(* insertion order and its debts list as references.  The nodes work on     *)
(* the value of a wallet (Load) and their in-place updates are written      *)
(* back through the references they went through (Store).                   *)
(***************************************************************************)

\* the wallet value the nodes see behind state_ref
Load(h, state_ref) ==
    LET w == h[state_ref] IN
    [w EXCEPT !.assets = [i \in DOMAIN w.assets |-> h[w.assets[i][2]]],
              !.debts = [i \in DOMAIN w.debts |-> h[w.debts[i]]]]

\* reference under key name in the assets dict, 0 when absent
AssetRef(assets, name) ==
    IF \E i \in DOMAIN assets : assets[i][1] = name
    THEN assets[CHOOSE i \in DOMAIN assets : assets[i][1] = name][2]
    ELSE 0

\* assets of the updated value: an asset under a key the dict already had is
\* the same object, updated in place; an asset under a new key is a new
\* object; a key that is gone was deleted from the dict
RECURSIVE StoreAssets(_, _, _, _, _)
StoreAssets(h, old_assets, assets, i, acc) ==
    IF i > Len(assets) THEN [heap |-> h, assets |-> acc]
    ELSE LET asset == assets[i]
             r == AssetRef(old_assets, asset.name)
         IN IF r # 0
            THEN StoreAssets([h EXCEPT ![r] = asset], old_assets, assets, i + 1,
                             Append(acc, <<asset.name, r>>))
            ELSE StoreAssets(Append(h, asset), old_assets, assets, i + 1,
                             Append(acc, <<asset.name, Len(h) + 1>>))

RECURSIVE StoreDebts(_, _, _, _)
StoreDebts(h, debt_refs, debts, i) ==
    IF i > Len(debts) THEN h
    ELSE StoreDebts([h EXCEPT ![debt_refs[i]] = debts[i]], debt_refs, debts, i + 1)

\* write the value state back into the object behind state_ref
Store(h, state_ref, state) ==
    LET old == h[state_ref]
        sa == StoreAssets(h, old.assets, state.assets, 1, <<>>)
        h2 == StoreDebts(sa.heap, old.debts, state.debts, 1)
    IN [h2 EXCEPT ![state_ref] =
           [state EXCEPT !.assets = sa.assets, !.debts = old.debts]]

\* {k: copy.deepcopy(v) for k, v in assets.items()}
RECURSIVE CopyAssets(_, _, _, _)
CopyAssets(h, assets, i, acc) ==
    IF i > Len(assets) THEN [heap |-> h, assets |-> acc]
    ELSE CopyAssets(Append(h, h[assets[i][2]]), assets, i + 1,
                    Append(acc, <<assets[i][1], Len(h) + 1>>))

\* copy.deepcopy(debts)
RECURSIVE CopyDebts(_, _, _, _)
CopyDebts(h, debts, i, acc) ==
    IF i > Len(debts) THEN [heap |-> h, debts |-> acc]
    ELSE CopyDebts(Append(h, h[debts[i]]), debts, i + 1, Append(acc, Len(h) + 1))

\* no copy: the same wallet object
SameObject(h, state_ref) == [heap |-> h, ref |-> state_ref]

\* copy.deepcopy(state) through WalletState.__deepcopy__: a new wallet object
\* with new asset and debt objects; transactions and the PRNG state tuple are
\* immutable values
DeepCopy(h, state_ref) ==
    LET w == h[state_ref]
        ca == CopyAssets(h, w.assets, 1, <<>>)
        cd == CopyDebts(ca.heap, w.debts, 1, <<>>)
    IN [heap |-> Append(cd.heap, [w EXCEPT !.assets = ca.assets,
                                           !.debts = cd.debts]),
        ref |-> Len(cd.heap) + 1]

\* a new wallet object holding the value state (its assets and debts become
\* new objects)
New(h, state) ==
    LET blank == Append(h, [state EXCEPT !.assets = <<>>, !.debts = <<>>])
        ref == Len(h) + 1
        sa == StoreAssets(blank, <<>>, state.assets, 1, <<>>)
        withDebts == sa.heap \o state.debts
    IN [heap |-> [withDebts EXCEPT ![ref] =
                     [state EXCEPT
                        !.assets = sa.assets,
                        !.debts = [i \in DOMAIN state.debts |-> Len(sa.heap) + i]]],
        ref |-> ref]

\* ExecutionContext.set_output: node_outputs[node_id] = value
set_output(context, node_id, value) ==
    LET outs == context.node_outputs IN
    [context EXCEPT !.node_outputs =
        IF \E i \in DOMAIN outs : outs[i][1] = node_id
        THEN [i \in DOMAIN outs |->
                 IF outs[i][1] = node_id THEN <<node_id, value>> ELSE outs[i]]
        ELSE Append(outs, <<node_id, value>>)]

\* One record per node run of a day: the node, the outputs the context held
\* when the node started, and the credit score the node left.
TraceEntry(node_id, context, state) ==
    [node_id |-> node_id,
     outputs |-> {context.node_outputs[i][1] : i \in DOMAIN context.node_outputs},
     credit_score |-> state.credit_score]

RECURSIVE ExecuteLoop(_, _, _, _, _, _, _)

\* the rest of one pass of the loop of execute_daily, o being what
\* node.execute returned: node.last_value and context.set_output, then the
\* next node
ExecuteNode(dag, execution_order, i, h, state_ref, context, trace, o) ==
    ExecuteLoop([dag EXCEPT !.nodes[NodeIndex(dag, execution_order[i])] =
                     [o.node EXCEPT !.last_value = Some(o.result)]],
                execution_order, i + 1,
                Store(h, state_ref, o.state), state_ref,
                set_output(o.context, execution_order[i], o.result),
                Append(trace, TraceEntry(execution_order[i], context, o.state)))

\* the loop of execute_daily from position i of the execution order on;
\* self.nodes[node_id] raises KeyError for an id that is in the graph only
ExecuteLoop(dag, execution_order, i, h, state_ref, context, trace) ==
    IF i > Len(execution_order)
    THEN [dag |-> dag, heap |-> h, prng |-> context.prng,
          trace |-> trace, raised |-> "no"]
    ELSE IF execution_order[i] \notin NodeIds(dag)
    THEN [dag |-> dag, heap |-> h, prng |-> context.prng,
          trace |-> trace, raised |-> "KeyError"]
    ELSE ExecuteNode(dag, execution_order, i, h, state_ref, context, trace,
                     Execute(get_node(dag, execution_order[i]),
                             Load(h, state_ref), context))

\* DAGEngine.execute_daily on the wallet object behind state_ref; the object
\* is updated in place and is the one returned
execute_daily(dag, h, state_ref, current_date, prng) ==
    LET b == build_execution_order(dag) IN
    IF b.raised # "no"
    THEN [dag |-> b.dag, heap |-> h, prng |-> prng, trace |-> <<>>,
          raised |-> b.raised]
    ELSE ExecuteLoop(b.dag, b.order, 1, h, state_ref,
                     ExecutionContext(current_date, prng), <<>>)

(***************************************************************************)
(* State manager (state_manager.py).  uuid4 values are modelled as the      *)
(* count of identifiers the manager has drawn: distinct, never reused.      *)
(* Snapshot.timestamp (the wall clock) is not read by any operation and is  *)
(* left out.                                                                *)
(***************************************************************************)

Timeline(timeline_id, parent_id) ==
    [timeline_id |-> timeline_id, parent_id |-> parent_id,
     states |-> <<>>, snapshots |-> <<>>]

\* Timeline.add_state: self.states[simulation_date] = state
TimelineAddState(timeline, simulation_date, state_ref) ==
    LET st == timeline.states IN
    [timeline EXCEPT !.states =
        IF \E i \in DOMAIN st : st[i][1] = simulation_date
        THEN [i \in DOMAIN st |->
                 IF st[i][1] = simulation_date THEN <<simulation_date, state_ref>>
                 ELSE st[i]]
        ELSE Append(st, <<simulation_date, state_ref>>)]

\* Timeline.get_latest_state: the state under the greatest date, None when
\* the timeline has no state
get_latest_state(timeline) ==
    IF timeline.states = <<>> THEN None
    ELSE LET i == CHOOSE i \in DOMAIN timeline.states :
                      \A j \in DOMAIN timeline.states :
                          DateLeq(timeline.states[j][1], timeline.states[i][1])
         IN Some(timeline.states[i][2])

Snapshot(snapshot_id, simulation_date, state_ref, parent_snapshot_id, description) ==
    [snapshot_id |-> snapshot_id, simulation_date |-> simulation_date,
     state |-> state_ref, parent_snapshot_id |-> parent_snapshot_id,
     description |-> description]

StateManager ==
    [timelines |-> <<Timeline(1, None)>>, main_timeline_id |-> 1,
     current_timeline_id |-> 1, uuids |-> 1]

TimelineIds(m) == {m.timelines[i].timeline_id : i \in DOMAIN m.timelines}

TimelineIndex(m, timeline_id) ==
    CHOOSE i \in DOMAIN m.timelines : m.timelines[i].timeline_id = timeline_id

get_timeline(m, timeline_id) == m.timelines[TimelineIndex(m, timeline_id)]

\* StateManager.create_snapshot: the snapshot holds a deep copy of the state
\* and is filed under the current timeline
create_snapshot(m, h, state_ref, simulation_date, description, parent_snapshot_id) ==
    LET snapshot_id == m.uuids + 1
        c == DeepCopy(h, state_ref)
        snapshot == Snapshot(snapshot_id, simulation_date, c.ref,
                             parent_snapshot_id, description)
        k == TimelineIndex(m, m.current_timeline_id)
    IN [manager |-> [m EXCEPT !.uuids = snapshot_id,
                              !.timelines[k].snapshots = Append(@, snapshot)],
        heap |-> c.heap, snapshot |-> snapshot]

\* no modifications given
NoModifications == [balance |-> None, assets |-> <<>>, debts |-> <<>>]

\* new_state.assets.update(modifications['assets']): the dict takes the
\* caller's Asset objects; a key it already has keeps its place
RECURSIVE UpdateAssets(_, _, _, _)
UpdateAssets(h, assets, more, i) ==
    IF i > Len(more) THEN [heap |-> h, assets |-> assets]
    ELSE LET name == more[i].name
             r == Len(h) + 1
         IN UpdateAssets(Append(h, more[i]),
                IF AssetRef(assets, name) # 0
                THEN [j \in DOMAIN assets |->
                         IF assets[j][1] = name THEN <<name, r>> ELSE assets[j]]
                ELSE Append(assets, <<name, r>>),
                more, i + 1)

\* modifications that are not applied
IgnoreModifications(h, state_ref, modifications) == h

\* the modifications applied in place to the wallet object behind state_ref
ApplyModifications(h, state_ref, modifications) ==
    LET h1 == IF modifications.balance # None
              THEN [h EXCEPT ![state_ref].balance = modifications.balance[1]]
              ELSE h
        ua == UpdateAssets(h1, h1[state_ref].assets, modifications.assets, 1)
        h2 == ua.heap \o modifications.debts
    IN [h2 EXCEPT
          ![state_ref].assets = ua.assets,
          ![state_ref].debts =
              @ \o [i \in DOMAIN modifications.debts |-> Len(ua.heap) + i]]

SnapshotsOf(m) ==
    UNION {{m.timelines[i].snapshots[j] : j \in DOMAIN m.timelines[i].snapshots} :
               i \in DOMAIN m.timelines}

\* StateManager.branch_from_snapshot
branch_from_snapshot(m, h, snapshot_id, modifications) ==
    IF \A sn \in SnapshotsOf(m) : sn.snapshot_id # snapshot_id
    THEN [manager |-> m, heap |-> h, timeline_id |-> 0, raised |-> "ValueError"]
    ELSE LET source_timeline_id ==
                 m.timelines[CHOOSE i \in DOMAIN m.timelines :
                     /\ \E j \in DOMAIN m.timelines[i].snapshots :
                            m.timelines[i].snapshots[j].snapshot_id = snapshot_id
                     /\ \A i2 \in 1..(i - 1) :
                            \A j \in DOMAIN m.timelines[i2].snapshots :
                                m.timelines[i2].snapshots[j].snapshot_id # snapshot_id
                     ].timeline_id
             source_snapshot ==
                 CHOOSE sn \in SnapshotsOf(m) : sn.snapshot_id = snapshot_id
             new_timeline_id == m.uuids + 1
             c1 == DeepCopy(h, source_snapshot.state)
             new_state == c1.ref
             h1 == ApplyModifications(c1.heap, new_state, modifications)
             c2 == DeepCopy(h1, new_state)
             new_snapshot == Snapshot(m.uuids + 2, source_snapshot.simulation_date,
                                      c2.ref, Some(snapshot_id),
                                      <<"Branch from", snapshot_id>>)
             new_timeline ==
                 [TimelineAddState(Timeline(new_timeline_id, Some(source_timeline_id)),
                                   source_snapshot.simulation_date, new_state)
                     EXCEPT !.snapshots = <<new_snapshot>>]
         IN [manager |-> [m EXCEPT !.uuids = @ + 2,
                                   !.timelines = Append(@, new_timeline)],
             heap |-> c2.heap, timeline_id |-> new_timeline_id, raised |-> "no"]

\* StateManager.switch_timeline (the timeline exists)
switch_timeline(m, timeline_id) == [m EXCEPT !.current_timeline_id = timeline_id]

\* a switch that does not look the timeline up
SwitchTimelineUnchecked(m, timeline_id) ==
    [manager |-> switch_timeline(m, timeline_id), raised |-> "no"]

\* StateManager.switch_timeline with its lookup: an unknown id raises
\* ValueError before current_timeline_id is assigned
SwitchTimeline(m, timeline_id) ==
    IF timeline_id \notin TimelineIds(m)
    THEN [manager |-> m, raised |-> "ValueError"]
    ELSE [manager |-> switch_timeline(m, timeline_id), raised |-> "no"]

\* StateManager.get_timeline with its lookup; None stands for the argument
\* left out
GetTimeline(m, timeline_id) ==
    LET id == IF timeline_id = None THEN m.current_timeline_id ELSE timeline_id[1]
    IN IF id \notin TimelineIds(m)
       THEN [timeline |-> None, raised |-> "ValueError"]
       ELSE [timeline |-> Some(get_timeline(m, id)), raised |-> "no"]

\* StateManager.add_state: files the state under the current timeline
add_state(m, simulation_date, state_ref) ==
    LET k == TimelineIndex(m, m.current_timeline_id) IN
    [m EXCEPT !.timelines[k] = TimelineAddState(@, simulation_date, state_ref)]

(***************************************************************************)
(* Simulation engine (simulation_engine.py).  An engine refers to its DAG   *)
(* and its state manager by their places in dags and managers, and to its   *)
(* wallet by a heap reference.  trace is a history variable: the node runs  *)
(* of the engine's latest day.                                              *)
(***************************************************************************)

SimulationConfig(start_date, end_date, initial_balance, initial_credit_score, random_seed) ==
    [start_date |-> start_date, end_date |-> end_date,
     initial_balance |-> initial_balance,
     initial_credit_score |-> initial_credit_score, random_seed |-> random_seed]

\* an engine whose generator is seeded from outside the configuration
SimulationEngineUnseeded(config, dag_engine, state_manager, h) ==
    LET prng == [mt |-> (config.random_seed + state_manager) % RngModulus,
                 gauss_next |-> None]
        w == [current_date |-> config.start_date, balance |-> config.initial_balance,
              credit_score |-> config.initial_credit_score, assets |-> <<>>,
              debts |-> <<>>, transaction_history |-> <<>>, total_income_ytd |-> 0,
              total_expenses_ytd |-> 0, taxes_paid_ytd |-> 0,
              prng_state |-> <<<<3, prng.mt, prng.gauss_next>>>>,
              seen_at_append |-> <<>>]
    IN [engine |-> [config |-> config, dag |-> dag_engine,
                    state_manager |-> state_manager, prng |-> prng,
                    current_state |-> Len(h) + 1, daily_metrics |-> <<>>,
                    is_bankrupt |-> FALSE, bankruptcy_date |-> None,
                    trace |-> <<>>],
        heap |-> Append(h, w)]

\* SimulationEngine.__init__ given where the new StateManager and the new
\* WalletState are placed
SimulationEngine(config, dag_engine, state_manager, h) ==
    LET prng == NewRandom(config.random_seed)
        n == New(h, [WalletState(config.start_date, config.initial_balance,
                                 config.initial_credit_score)
                        EXCEPT !.prng_state = Some(GetState(prng))])
    IN [engine |-> [config |-> config, dag |-> dag_engine,
                    state_manager |-> state_manager, prng |-> prng,
                    current_state |-> n.ref, daily_metrics |-> <<>>,
                    is_bankrupt |-> FALSE, bankruptcy_date |-> None,
                    trace |-> <<>>],
        heap |-> n.heap]

Metrics(current_date, state) ==
    [date |-> current_date, balance |-> state.balance,
     credit_score |-> state.credit_score,
     total_assets |-> get_total_assets(state),
     total_debt |-> get_total_debt(state),
     net_worth |-> get_net_worth(state),
     liquid_assets |-> get_liquid_assets(state)]

\* the rest of SimulationEngine.step, r being what execute_daily returned.
\* An exception out of execute_daily leaves what the day had already updated
\* in place and skips the rest of the step.
StepRest(engine, m, state_ref, current_date, r) ==
    IF r.raised # "no"
    THEN [engine |-> [engine EXCEPT !.prng = r.prng, !.trace = r.trace],
          dag |-> r.dag, manager |-> m, heap |-> r.heap, raised |-> r.raised]
    ELSE LET h2 == [r.heap EXCEPT ![state_ref].prng_state = Some(GetState(r.prng))]
             metrics == Metrics(current_date, Load(h2, state_ref))
             c == DeepCopy(h2, state_ref)
             bankrupt ==
                 IF "bankruptcy_check" \in NodeIds(r.dag)
                 THEN LET bankruptcy_node == get_node(r.dag, "bankruptcy_check")
                      IN IF "is_bankrupt" \in DOMAIN bankruptcy_node
                         THEN bankruptcy_node.is_bankrupt
                         ELSE engine.is_bankrupt
                 ELSE engine.is_bankrupt
         IN [engine |-> [engine EXCEPT
                            !.prng = r.prng, !.trace = r.trace,
                            !.daily_metrics = Append(@, metrics),
                            !.is_bankrupt = bankrupt],
             dag |-> r.dag,
             manager |-> add_state(m, current_date, c.ref),
             heap |-> c.heap, raised |-> "no"]

\* SimulationEngine.step
step(engine, dag, m, h, current_date) ==
    StepRest(engine, m, engine.current_state, current_date,
             execute_daily(dag,
                           [h EXCEPT ![engine.current_state].current_date = current_date],
                           engine.current_state, current_date, engine.prng))

RECURSIVE RunLoop(_, _, _, _, _, _)

\* a loop that ends after its first pass
RunOnce(s, current_date, end_date) == s

\* the rest of one pass of the while loop of SimulationEngine.run, s being
\* what step returned
RunRest(s, current_date, end_date) ==
    IF s.raised # "no" THEN s
    ELSE IF s.engine.is_bankrupt
    THEN [s EXCEPT !.engine.bankruptcy_date = Some(current_date)]
    ELSE RunLoop(s.engine, s.dag, s.manager, s.heap,
                 NextDay(current_date), end_date)

\* the while loop of SimulationEngine.run from current_date on
RunLoop(engine, dag, m, h, current_date, end_date) ==
    IF ~DateLeq(current_date, end_date)
    THEN [engine |-> engine, dag |-> dag, manager |-> m, heap |-> h,
          raised |-> "no"]
    ELSE RunRest(step(engine, dag, m, h, current_date), current_date, end_date)

\* SimulationEngine.run(start_date, end_date); None stands for an argument
\* left out
run(engine, dag, m, h, start_date, end_date) ==
    RunLoop(engine, dag, m, h,
            IF start_date = None THEN engine.config.start_date ELSE start_date[1],
            IF end_date = None THEN engine.config.end_date ELSE end_date[1])

\* SimulationEngine.create_snapshot
EngineCreateSnapshot(engine, m, h, description) ==
    create_snapshot(m, h, engine.current_state,
                    h[engine.current_state].current_date, description, None)

\* SimulationEngine.create_branch: the branch engine shares the DAG and the
\* state manager of its parent; the StateManager and the WalletState its
\* constructor made are dropped unreferenced
\* the rest of create_branch, b being what branch_from_snapshot returned
BranchRest(engine, state_manager, m, h, b) ==
    IF b.raised # "no"
    THEN [engine |-> engine, manager |-> m, heap |-> h, raised |-> b.raised]
    ELSE LET new_timeline == get_timeline(b.manager, b.timeline_id)
             branched_state == get_latest_state(new_timeline)[1]
             fresh == SimulationEngine(engine.config, engine.dag, state_manager,
                                       b.heap)
             c == DeepCopy(fresh.heap, branched_state)
             prng_state == c.heap[branched_state].prng_state
         IN [engine |-> [fresh.engine EXCEPT
                            !.current_state = c.ref,
                            !.prng = IF prng_state # None
                                     THEN SetState(@, prng_state[1])
                                     ELSE @],
             manager |-> switch_timeline(b.manager, b.timeline_id),
             heap |-> c.heap, raised |-> "no"]

create_branch(engine, state_manager, m, h, snapshot_id, modifications) ==
    BranchRest(engine, state_manager, m, h,
               branch_from_snapshot(m, h, snapshot_id, modifications))

\* SimulationEngine.get_result
get_result(engine, m, h) ==
    [config |-> engine.config,
     final_state |-> engine.current_state,
     timeline_id |-> m.current_timeline_id,
     final_balance |-> h[engine.current_state].balance,
     net_asset_value |-> get_net_worth(Load(h, engine.current_state))]

\* ScenarioRunner.__init__; dag_engine is the place of the DAG in dags
ScenarioRunner(base_config, dag_engine) ==
    [base_config |-> base_config, dag_engine |-> dag_engine, scenarios |-> <<>>]

RECURSIVE RunScenarios(_, _, _, _, _, _, _, _)

\* the rest of one pass of the loop of run_scenarios, e being the engine the
\* pass constructed and s what its run() returned
ScenarioRan(runner, es, ms, i, num_scenarios, results, e, s) ==
    RunScenarios(runner, s.dag, Append(es, s.engine), Append(ms, s.manager),
                 s.heap, i + 1, num_scenarios,
                 Append(results, [result |-> get_result(s.engine, s.manager, s.heap),
                                  raised |-> s.raised]))

\* one engine of run_scenarios constructed and run
ScenarioEngine(runner, dag, es, ms, i, num_scenarios, results, e) ==
    ScenarioRan(runner, es, ms, i, num_scenarios, results, e,
                run(e.engine, dag, StateManager, e.heap, None, None))

\* the loop of ScenarioRunner.run_scenarios from scenario i on: every engine
\* is constructed over the runner's DAG and with its own StateManager
RunScenarios(runner, dag, es, ms, h, i, num_scenarios, results) ==
    IF i >= num_scenarios
    THEN [dag |-> dag, engines |-> es, managers |-> ms, heap |-> h,
          results |-> results]
    ELSE ScenarioEngine(runner, dag, es, ms, i, num_scenarios, results,
             SimulationEngine(
                 SimulationConfig(runner.base_config.start_date,
                                  runner.base_config.end_date,
                                  runner.base_config.initial_balance,
                                  runner.base_config.initial_credit_score,
                                  runner.base_config.random_seed + i),
                 runner.dag_engine, Len(ms) + 1, h))

\* ScenarioRunner.run_scenarios(num_scenarios)
run_scenarios(runner, dag, es, ms, h, num_scenarios) ==
    RunScenarios(runner, dag, es, ms, h, 0, num_scenarios, <<>>)

(***************************************************************************)
(* SpecDag: one DAGEngine driven through its public operations.            *)
(***************************************************************************)

\* number of distinct node ids the DAG is driven with
MaxNodes == 3

\* most dependencies one node declares
MaxDeps == 1

DagIds == SubSeq(<<"a", "b", "c", "d", "e">>, 1, MaxNodes)

DagIdSet == {DagIds[i] : i \in DOMAIN DagIds}

\* dependency lists: up to MaxDeps distinct ids
DagDeps ==
    {<<>>} \cup {<<u>> : u \in DagIdSet}
           \cup (IF MaxDeps >= 2
                 THEN {<<u, v>> : u, v \in DagIdSet} \ {<<u, u>> : u \in DagIdSet}
                 ELSE {})

\* the node class registered: it reads the wallet and leaves it as it is, so
\* the day's trace depends on the DAG alone
DagNodes(node_id, dependencies) == {AssetPortfolioNode(node_id, dependencies)}

DagDay == Date(2024, 1, 1)

DagInit ==
    /\ dags = <<DAGEngine>>
    /\ engines = <<>>
    /\ managers = <<>>
    /\ heap = New(<<>>, WalletState(DagDay, Dec(1000, 0), Dec(700, 0))).heap
    /\ unit = [op |-> "init", raised |-> "no", order |-> <<>>, trace |-> <<>>]

DagAddNode ==
    \E node_id \in DagIdSet, dependencies \in DagDeps :
      \E node \in DagNodes(node_id, dependencies) :
        LET r == add_node(dags[1], node) IN
        /\ dags' = <<r.dag>>
        /\ unit' = [op |-> "add_node", raised |-> r.raised, order |-> <<>>,
                    trace |-> <<>>]
        /\ UNCHANGED <<engines, managers, heap>>

DagRemoveNode ==
    \E node_id \in DagIdSet :
        /\ dags' = <<remove_node(dags[1], node_id)>>
        /\ unit' = [op |-> "remove_node", raised |-> "no", order |-> <<>>,
                    trace |-> <<>>]
        /\ UNCHANGED <<engines, managers, heap>>

DagGetExecutionOrder ==
    LET b == build_execution_order(dags[1]) IN
    /\ dags' = <<b.dag>>
    /\ unit' = [op |-> "get_execution_order", raised |-> b.raised,
                order |-> b.order, trace |-> <<>>]
    /\ UNCHANGED <<engines, managers, heap>>

\* what a call of execute_daily that returned r leaves behind
DagExecuted(r) ==
    /\ dags' = <<r.dag>>
    /\ heap' = r.heap
    /\ unit' = [op |-> "execute_daily", raised |-> r.raised,
                order |-> r.dag.execution_order, trace |-> r.trace]
    /\ UNCHANGED <<engines, managers>>

DagExecuteDaily ==
    DagExecuted(execute_daily(dags[1], heap, 1, DagDay, NewRandom(42)))

DagNext ==
    \/ DagAddNode
    \/ DagRemoveNode
    \/ DagGetExecutionOrder
    \/ DagExecuteDaily

SpecDag == DagInit /\ [][DagNext]_vars

RegisteredDeps(dag, node_id) ==
    {u \in NodeIds(dag) :
        Contains(get_node(dag, node_id).dependencies, u)}

\* C2: on every day run by execute_daily, each node starts only after every
\* registered node it depends on has run that day and left its output in the
\* day's context.
TopologicalOrdering ==
    unit.op = "execute_daily" =>
        \A k \in DOMAIN unit.trace :
            RegisteredDeps(dags[1], unit.trace[k].node_id)
                \subseteq unit.trace[k].outputs

\* v reaches u through at most n dependency links between registered nodes
RECURSIVE DependsOnWithin(_, _, _, _)
DependsOnWithin(dag, v, u, n) ==
    /\ n > 0
    /\ \/ u \in RegisteredDeps(dag, v)
       \/ \E w \in RegisteredDeps(dag, v) : DependsOnWithin(dag, w, u, n - 1)

Unrelated(dag, a, b) ==
    /\ ~DependsOnWithin(dag, a, b, Len(dag.nodes))
    /\ ~DependsOnWithin(dag, b, a, Len(dag.nodes))

Position(seq, x) == CHOOSE i \in DOMAIN seq : seq[i] = x

\* C3: in the order the DAG returns, two registered nodes with no dependency
\* path between them stand in the order of their add_node calls.
InsertionOrderTieBreak ==
    (unit.op = "get_execution_order" /\ unit.raised = "no") =>
        \A i, j \in DOMAIN dags[1].nodes :
            (i < j /\ Unrelated(dags[1], dags[1].nodes[i].node_id,
                                dags[1].nodes[j].node_id))
            => Position(unit.order, dags[1].nodes[i].node_id)
                   < Position(unit.order, dags[1].nodes[j].node_id)

EdgeSet(g) == {g.edges[i] : i \in DOMAIN g.edges}

DepSet(node) == {node.dependencies[j] : j \in DOMAIN node.dependencies}

\* C15: add_node under an id that is already registered raises the
\* duplicate-id ValueError and leaves registry, graph and cached order as they
\* were; under a new id it appends the node to the registry and adds exactly
\* the edges dep -> node of its declared dependencies.
AddNodeContract ==
    \A node_id \in DagIdSet, dependencies \in DagDeps :
      \A node \in DagNodes(node_id, dependencies) :
        LET r == add_node(dags[1], node) IN
        IF node_id \in NodeIds(dags[1])
        THEN r.raised = "ValueError" /\ r.dag = dags[1]
        ELSE /\ r.raised = "no"
             /\ r.dag.nodes = Append(dags[1].nodes, node)
             /\ EdgeSet(r.dag.graph) =
                    EdgeSet(dags[1].graph)
                        \cup {<<dep, node_id>> : dep \in DepSet(node)}

\* a duplicate add_node was refused on a DAG that holds a dependency edge and
\* a cached order
AddNodeContractWitness ==
    /\ unit.op = "add_node"
    /\ unit.raised = "ValueError"
    /\ dags[1].graph.edges # <<>>
    /\ dags[1].execution_order # <<>>
    /\ ~dags[1].dirty

\* the declared dependencies of the registered nodes hold a cycle
DeclaredCycle(dag) ==
    \E v \in NodeIds(dag) : DependsOnWithin(dag, v, v, Len(dag.nodes))

\* some registered node declares a dependency that is not registered
MissingDependency(dag) ==
    \E i \in DOMAIN dag.nodes : ~(DepSet(dag.nodes[i]) \subseteq NodeIds(dag))

\* C16: validation fails exactly when the declared dependencies of the
\* registered nodes hold a cycle or name an unregistered id, whatever the
\* order of the add_node calls; get_execution_order and execute_daily on a
\* DAG that fails validation raise and run no node.
ValidateExact ==
    /\ validate_dag(dags[1])
           <=> ~(DeclaredCycle(dags[1]) \/ MissingDependency(dags[1]))
    /\ (unit.op \in {"get_execution_order", "execute_daily"}
            /\ ~validate_dag(dags[1]))
        => (unit.raised = "ValueError" /\ unit.trace = <<>>)

\* C17: remove_node twice leaves the DAG as remove_node once does, and
\* remove_node of an id that is not registered leaves the DAG as it was.
RemoveNodeIdempotent ==
    \A node_id \in DagIdSet :
        /\ remove_node(remove_node(dags[1], node_id), node_id)
               = remove_node(dags[1], node_id)
        /\ node_id \notin NodeIds(dags[1])
               => remove_node(dags[1], node_id) = dags[1]

\* remove_node was called for an unregistered id on a DAG with a cached order
RemoveNodeIdempotentWitness ==
    /\ unit.op = "remove_node"
    /\ ~dags[1].dirty
    /\ dags[1].execution_order # <<>>
    /\ NodeIds(dags[1]) # DagIdSet

\* C18: the order get_execution_order returns is the order a new DAGEngine
\* computes for the registered nodes, added in registry order.
CacheNeverStale ==
    unit.op = "get_execution_order" =>
        LET scratch == build_execution_order(BuildDag(DAGEngine, dags[1].nodes, 1))
        IN unit.raised = scratch.raised /\ unit.order = scratch.order

\* the ids of a sequence of ids or of trace entries
Ids(seq) == {seq[i] : i \in DOMAIN seq}

\* C22: when validate_dag succeeds on the DAG that add_node and remove_node
\* calls have left, execute_daily completes, its execution order holds
\* exactly the ids of the registered nodes, each once, and it runs every
\* registered node exactly once.
ExecutesRegistered ==
    (unit.op = "execute_daily" /\ validate_dag(dags[1])) =>
        /\ unit.raised = "no"
        /\ Ids(unit.order) = NodeIds(dags[1])
        /\ Len(unit.order) = Len(dags[1].nodes)
        /\ Ids([i \in DOMAIN unit.trace |-> unit.trace[i].node_id]) = NodeIds(dags[1])
        /\ Len(unit.trace) = Len(dags[1].nodes)

(***************************************************************************)
(* Spec: one engine over a DAG with every node class, driven through       *)
(* step, run and create_snapshot.                                          *)
(***************************************************************************)

\* calls made on the engine in one behaviour
MaxOps == 3

\* the DAG of build_comprehensive_dag, with payments on the 1st, rates large
\* enough to show at the model's precision, and the bankruptcy node under
\* the id the engine looks up
ComprehensiveNodes(alpha) ==
    <<SalaryNode("salary", Dec(60000, 0), 1, <<>>),
      VariableIncomeNode("freelance", Dec(1500, 0), Dec(500, 0), Dec(5, 1), <<>>),
      FixedExpenseNode("rent", Dec(2000, 0), 1, <<"Monthly rent">>, <<>>),
      VariableExpenseNode("daily_living", Dec(60, 0), Dec(25, 0),
                          <<"Food, transport, entertainment">>, <<>>),
      ConditionalExpenseNode("gift", Dec(100, 0), "balance_positive",
                             <<"Gift">>, <<>>),
      DebtPaymentNode("debt_payments", 1, <<>>),
      InvestmentReturnNode("investment_returns", Dec(365, 1), <<>>),
      AssetPortfolioNode("portfolio", <<>>),
      LiquidationNode("auto_liquidation", 0, <<"portfolio">>),
      AssetPurchaseNode("auto_invest", "stocks", Dec(5000, 0), Dec(4, 1),
                        <<"portfolio">>),
      IncomeTaxNode("taxes", DefaultBrackets, 12, 31, <<"salary", "freelance">>),
      CapitalGainsTaxNode("capital_gains", Dec(15, 2), <<>>),
      CreditScoreNode("credit_score", alpha,
                      <<"taxes", "portfolio", "debt_payments">>),
      BankruptcyCheckNode("bankruptcy_check", Dec(-1000, 0), <<"credit_score">>)>>

build_comprehensive_dag(alpha) == BuildDag(DAGEngine, ComprehensiveNodes(alpha), 1)

Alphas == {Dec(1, 1), Dec(10, 0)}

Seeds == {42, 99}

InitialBalances == {Dec(6000, 0), Dec(-3000, 0)}

InitialScores == {Dec(310, 0), Dec(840, 0)}

\* what the caller puts into engine.current_state before the first day
Holdings ==
    {[assets |-> <<>>, debts |-> <<>>],
     [assets |-> <<Asset("stocks", "stocks", Dec(2000, 0), TRUE, Dec(5, 2)),
                   Asset("house", "real_estate", Dec(9000, 0), FALSE, Dec(1, 1))>>,
      debts |-> <<Debt("loan", Dec(8000, 0), Dec(6, 2), Dec(300, 0))>>]}

StepDates == {Date(2024, 1, 1), Date(2024, 2, 1), Date(2024, 12, 31)}

RunStart == Date(2024, 1, 1)

RunEnd == Date(2024, 1, 2)

\* engine.current_state.assets[name] = asset for each asset and
\* engine.current_state.debts.append(debt) for each debt of the holdings
Hold(h, state_ref, holdings) ==
    LET h1 == h \o holdings.debts
        h2 == [h1 EXCEPT ![state_ref].debts =
                   @ \o [i \in DOMAIN holdings.debts |-> Len(h) + i]]
        w == Load(h2, state_ref)
    IN Store(h2, state_ref, [w EXCEPT !.assets = @ \o holdings.assets])

Init ==
    \E alpha \in Alphas, seed \in Seeds, balance \in InitialBalances,
       score \in InitialScores, holdings \in Holdings :
        LET config == SimulationConfig(RunStart, RunEnd, balance, score, seed)
            e == SimulationEngine(config, 1, 1, <<>>)
        IN /\ dags = <<build_comprehensive_dag(alpha)>>
           /\ managers = <<StateManager>>
           /\ engines = <<e.engine>>
           /\ heap = Hold(e.heap, e.engine.current_state, holdings)
           /\ unit = [ops |-> 0, raised |-> "no"]

\* what a call of step or run that returned s leaves behind
Stepped(s) ==
    /\ engines' = <<s.engine>>
    /\ dags' = <<s.dag>>
    /\ managers' = <<s.manager>>
    /\ heap' = s.heap
    /\ unit' = [ops |-> unit.ops + 1, raised |-> s.raised]

Step ==
    /\ unit.ops < MaxOps
    /\ \E current_date \in StepDates :
        Stepped(step(engines[1], dags[1], managers[1], heap, current_date))

Run ==
    /\ unit.ops < MaxOps
    /\ Stepped(run(engines[1], dags[1], managers[1], heap, None, None))

CreateSnapshot ==
    /\ unit.ops < MaxOps
    /\ LET c == EngineCreateSnapshot(engines[1], managers[1], heap, <<"">>) IN
        /\ managers' = <<c.manager>>
        /\ heap' = c.heap
        /\ unit' = [ops |-> unit.ops + 1, raised |-> "no"]
        /\ UNCHANGED <<engines, dags>>

Next ==
    \/ Step
    \/ Run
    \/ CreateSnapshot

Spec == Init /\ [][Next]_vars

\* the WalletState objects of the heap: live states, timeline entries and
\* snapshot states
Wallets == {r \in DOMAIN heap : "balance" \in DOMAIN heap[r]}

\* C4: every transaction in a transaction_history carries as balance_after
\* the wallet balance of the moment it was appended.
BalanceConsistency ==
    \A r \in Wallets :
        /\ Len(heap[r].transaction_history) = Len(heap[r].seen_at_append)
        /\ \A i \in DOMAIN heap[r].transaction_history :
               heap[r].transaction_history[i].balance_after
                   = heap[r].seen_at_append[i]

Categories(state) ==
    {state.transaction_history[i].category : i \in DOMAIN state.transaction_history}

\* a live history with a liquidation, a debt payment and an investment
\* return, each of a non-zero amount
BalanceConsistencyWitness ==
    LET state == heap[engines[1].current_state] IN
    /\ {"liquidation", "expense:debt", "income:investment"} \subseteq Categories(state)
    /\ \E i \in DOMAIN state.transaction_history :
           /\ state.transaction_history[i].category = "liquidation"
           /\ state.transaction_history[i].amount # 0

RECURSIVE AmountsUpTo(_, _)
\* amount 1 + ... + amount i of the transactions, in whole-number arithmetic
AmountsUpTo(history, i) ==
    IF i = 0 THEN 0 ELSE AmountsUpTo(history, i - 1) + history[i].amount

\* C35: in a single engine run the balance of the live wallet is
\* initial_balance plus the sum of the amounts of its transactions, and
\* each transaction's balance_after is the balance_after of the one before
\* it (initial_balance for the first) plus its own amount, so no node moves
\* the balance without a transaction of that amount.
LedgerConservation ==
    LET e == engines[1]
        state == heap[e.current_state]
        history == state.transaction_history
    IN /\ state.balance
              = e.config.initial_balance + AmountsUpTo(history, Len(history))
       /\ \A i \in DOMAIN history :
              history[i].balance_after
                  = (IF i = 1 THEN e.config.initial_balance
                     ELSE history[i - 1].balance_after) + history[i].amount

\* an investment return of an amount finer than the balance can hold was
\* credited
LedgerConservationCounterexample ==
    LET e == engines[1]
        history == heap[e.current_state].transaction_history
    IN \E i \in DOMAIN history :
          /\ history[i].category = "income:investment"
          /\ history[i].balance_after
                 # (IF i = 1 THEN e.config.initial_balance
                    ELSE history[i - 1].balance_after) + history[i].amount

\* C5: the credit score of every wallet state (live, filed in a timeline or
\* held by a snapshot) and the score each node of the latest day left are
\* within [300, 850].
CreditScoreClamp ==
    /\ \A r \in Wallets :
           heap[r].credit_score >= Dec(300, 0) /\ heap[r].credit_score <= Dec(850, 0)
    /\ \A e \in DOMAIN engines : \A k \in DOMAIN engines[e].trace :
           /\ engines[e].trace[k].credit_score >= Dec(300, 0)
           /\ engines[e].trace[k].credit_score <= Dec(850, 0)

\* a score that started at 840 stands at the upper bound after the credit
\* node ran, and a snapshot is held
CreditScoreClampWitness ==
    /\ engines[1].config.initial_credit_score = Dec(840, 0)
    /\ \E k \in DOMAIN engines[1].trace :
           /\ engines[1].trace[k].node_id = "credit_score"
           /\ engines[1].trace[k].credit_score = Dec(850, 0)
    /\ \E i \in DOMAIN managers[1].timelines : managers[1].timelines[i].snapshots # <<>>

SameMonth(a, b) == a.year = b.year /\ a.month = b.month

\* C7: the live history holds at most one salary transaction, one transaction
\* of the fixed expense and one payment per debt for each calendar month.
MonthlyOnce ==
    LET th == heap[engines[1].current_state].transaction_history IN
    \A i, j \in DOMAIN th :
        (/\ i < j
         /\ th[i].category \in {"income:salary", "expense:fixed", "expense:debt"}
         /\ th[i].category = th[j].category
         /\ th[i].description = th[j].description)
        => ~SameMonth(th[i].timestamp, th[j].timestamp)

(***************************************************************************)
(* SpecBranch: a parent engine that steps through its days, takes          *)
(* snapshots and creates branch engines, which run over date ranges.  The  *)
(* branch engines share the parent's DAG and state manager.                *)
(*                                                                         *)
(* History variables in unit: stored maps every wallet reference filed in  *)
(* a timeline or held by a snapshot to the value it had when it was        *)
(* stored; prngs holds, per snapshot, the engine's generator at the moment *)
(* the snapshot was taken; branches holds, per branch engine, what it was  *)
(* created from and the range it ran.                                      *)
(***************************************************************************)

\* the days the parent engine steps, in order
ParentDays == <<Date(2024, 1, 1), Date(2024, 1, 2)>>

MaxSnapshots == 1

MaxBranches == 2

\* run(start_date, end_date) ranges of the branch engines
BranchRanges ==
    {<<Date(2024, 2, 1), Date(2024, 2, 2)>>, <<Date(2024, 12, 31), Date(2024, 12, 31)>>}

Modifications ==
    {NoModifications,
     [balance |-> Some(Dec(10000, 0)),
      assets |-> <<Asset("bonds", "bonds", Dec(1000, 0), TRUE, Dec(1, 2))>>,
      debts |-> <<Debt("card", Dec(500, 0), Dec(24, 2), Dec(100, 0))>>]}

\* references of the wallet states filed in timelines and held by snapshots
StoredRefs(m) ==
    UNION {{m.timelines[i].states[j][2] : j \in DOMAIN m.timelines[i].states}
               \cup {m.timelines[i].snapshots[j].state :
                        j \in DOMAIN m.timelines[i].snapshots} :
           i \in DOMAIN m.timelines}

\* stored, extended by the references new in m with their values in h
RecordStored(stored, m, h) ==
    [r \in DOMAIN stored \cup StoredRefs(m) |->
        IF r \in DOMAIN stored THEN stored[r] ELSE Load(h, r)]

BranchInit ==
    \E seed \in Seeds, holdings \in Holdings :
        LET config == SimulationConfig(Date(2024, 1, 1), Date(2024, 12, 31),
                                       Dec(6000, 0), Dec(700, 0), seed)
            e == SimulationEngine(config, 1, 1, <<>>)
        IN /\ dags = <<build_comprehensive_dag(Dec(10, 0))>>
           /\ managers = <<StateManager>>
           /\ engines = <<e.engine>>
           /\ heap = Hold(e.heap, e.engine.current_state, holdings)
           /\ unit = [days |-> 0, stored |-> <<>>, prngs |-> <<>>,
                      branches |-> <<>>, last |-> <<"init">>]

\* what a call of step on the parent that returned s leaves behind
ParentStepped(s) ==
    /\ engines' = [engines EXCEPT ![1] = s.engine]
    /\ dags' = <<s.dag>>
    /\ managers' = <<s.manager>>
    /\ heap' = s.heap
    /\ unit' = [unit EXCEPT !.days = @ + 1,
                            !.stored = RecordStored(@, s.manager, s.heap),
                            !.last = <<"step", 1>>]

ParentStep ==
    /\ unit.days < Len(ParentDays)
    /\ ParentStepped(step(engines[1], dags[1], managers[1], heap,
                          ParentDays[unit.days + 1]))

ParentCreateSnapshot ==
    /\ Len(unit.prngs) < MaxSnapshots
    /\ LET c == EngineCreateSnapshot(engines[1], managers[1], heap, <<"">>) IN
        /\ managers' = <<c.manager>>
        /\ heap' = c.heap
        /\ unit' = [unit EXCEPT
                       !.stored = RecordStored(@, c.manager, c.heap),
                       !.prngs = Append(@, <<c.snapshot.snapshot_id, engines[1].prng>>),
                       !.last = <<"create_snapshot", c.snapshot.snapshot_id>>]
        /\ UNCHANGED <<engines, dags>>

\* what a call of create_branch that returned b leaves behind
Branched(snapshot_id, modifications, b) ==
    /\ engines' = Append(engines, b.engine)
    /\ managers' = <<b.manager>>
    /\ heap' = b.heap
    /\ unit' = [unit EXCEPT
                   !.stored = RecordStored(@, b.manager, b.heap),
                   !.branches = Append(@, [snapshot_id |-> snapshot_id,
                                           modifications |-> modifications,
                                           ran |-> None]),
                   !.last = <<"create_branch", Len(engines) + 1, snapshot_id>>]
    /\ UNCHANGED dags

CreateBranch ==
    /\ Len(unit.branches) < MaxBranches
    /\ \E k \in DOMAIN unit.prngs, modifications \in Modifications :
        Branched(unit.prngs[k][1], modifications,
                 create_branch(engines[1], 1, managers[1], heap,
                               unit.prngs[k][1], modifications))

\* what a call of run over range on branch k that returned s leaves behind
BranchRan(k, range, s) ==
    /\ engines' = [engines EXCEPT ![k + 1] = s.engine]
    /\ dags' = <<s.dag>>
    /\ managers' = <<s.manager>>
    /\ heap' = s.heap
    /\ unit' = [unit EXCEPT
                   !.stored = RecordStored(@, s.manager, s.heap),
                   !.branches[k].ran = Some(range),
                   !.last = <<"run", k + 1>>]

BranchRun ==
    \E k \in DOMAIN unit.branches, range \in BranchRanges :
        /\ unit.branches[k].ran = None
        /\ BranchRan(k, range,
                     run(engines[k + 1], dags[1], managers[1], heap,
                         Some(range[1]), Some(range[2])))

BranchNext ==
    \/ ParentStep
    \/ ParentCreateSnapshot
    \/ CreateBranch
    \/ BranchRun

SpecBranch == BranchInit /\ [][BranchNext]_vars

\* C8: a wallet state held by a snapshot or filed in a timeline keeps the
\* value it was stored with, whatever the engines do to their live states
\* afterwards.
SnapshotIsolation ==
    \A r \in DOMAIN unit.stored : Load(heap, r) = unit.stored[r]

\* the parent holds a snapshot and a filed state, and its live state has since
\* moved on in balance, asset values, debt principal and history
SnapshotIsolationWitness ==
    /\ unit.days = Len(ParentDays)
    /\ \E i \in DOMAIN managers[1].timelines :
         \E j \in DOMAIN managers[1].timelines[i].snapshots :
           LET snap == Load(heap, managers[1].timelines[i].snapshots[j].state)
               live == Load(heap, engines[1].current_state)
           IN /\ snap.balance # live.balance
              /\ Len(snap.transaction_history) < Len(live.transaction_history)
              /\ snap.assets # <<>> /\ snap.assets # live.assets
              /\ snap.debts # <<>> /\ snap.debts # live.debts

\* the kinds of draw: uniform and gaussian
DrawKinds == {"random", "gauss"}

\* longest sequence of draws compared
MaxDraws == 3

DrawPatterns == UNION {[1..n -> DrawKinds] : n \in 1..MaxDraws}

RECURSIVE Draws(_, _, _)
\* the values prng yields for the draws pattern[i], pattern[i+1], ...
Draws(prng, pattern, i) ==
    IF i > Len(pattern) THEN <<>>
    ELSE LET d == IF pattern[i] = "random" THEN Random(prng)
                  ELSE Gauss(prng, 0, Dec(1, 0))
         IN <<d.value>> \o Draws(d.prng, pattern, i + 1)

SnapshotOf(snapshot_id) ==
    CHOOSE sn \in SnapshotsOf(managers[1]) : sn.snapshot_id = snapshot_id

\* C9: a generator restored from the rng_state held by a snapshot yields, for
\* every sequence of uniform and gaussian draws, the values the engine's
\* generator yielded from the moment of the snapshot on; and a branch engine
\* just created has its generator in the state its snapshot holds.
RngRoundTrip ==
    /\ \A k \in DOMAIN unit.prngs :
         LET rng_state == heap[SnapshotOf(unit.prngs[k][1]).state].prng_state[1]
             restored == SetState(NewRandom(0), rng_state)
         IN \A pattern \in DrawPatterns :
                Draws(restored, pattern, 1) = Draws(unit.prngs[k][2], pattern, 1)
    /\ unit.last[1] = "create_branch" =>
         GetState(engines[unit.last[2]].prng)
             = heap[SnapshotOf(unit.last[3]).state].prng_state[1]

\* a branch engine was just created from a snapshot taken while the parent's
\* generator held a cached gaussian variate, after at least one day of draws
RngRoundTripWitness ==
    /\ unit.last[1] = "create_branch"
    /\ unit.days > 0
    /\ \E k \in DOMAIN unit.prngs :
          /\ unit.prngs[k][1] = unit.last[3]
          /\ unit.prngs[k][2].gauss_next # None
          /\ unit.prngs[k][2] # NewRandom(engines[1].config.random_seed)

\* what getstate() of a generator is: the version, the position in the
\* stream and the cached gaussian variate
Exported(prng) == <<3, prng.mt, prng.gauss_next>>

\* the state the manager's current timeline holds under the date of the live
\* state of engine e
FiledToday(e) ==
    LET timeline == get_timeline(managers[1], managers[1].current_timeline_id)
        today == heap[engines[e].current_state].current_date
    IN heap[timeline.states[CHOOSE i \in DOMAIN timeline.states :
                                timeline.states[i][1] = today][2]]

\* C14: the prng_state of every engine's live state is the exported state of
\* the engine's generator, from construction on and after every step; the
\* state a step or run has just filed in the timeline carries it, and the
\* state of every snapshot carries the exported state the generator had when
\* the snapshot was made.
RngStateCapture ==
    /\ \A e \in DOMAIN engines :
          heap[engines[e].current_state].prng_state
              = Some(Exported(engines[e].prng))
    /\ unit.last[1] \in {"step", "run"} =>
          FiledToday(unit.last[2]).prng_state
              = Some(Exported(engines[unit.last[2]].prng))
    /\ \A k \in DOMAIN unit.prngs :
          heap[SnapshotOf(unit.prngs[k][1]).state].prng_state
              = Some(Exported(unit.prngs[k][2]))

\* a branch engine has run and holds a cached gaussian variate, away from
\* the state its snapshot holds, and the parent stepped before the snapshot
RngStateCaptureWitness ==
    /\ unit.last[1] = "run"
    /\ unit.prngs # <<>>
    /\ unit.prngs[1][2] # NewRandom(engines[1].config.random_seed)
    /\ engines[unit.last[2]].prng.gauss_next # None
    /\ engines[unit.last[2]].prng # unit.prngs[1][2]

\* what a final state is compared by
FinalState(e) ==
    LET state == Load(heap, engines[e].current_state) IN
    [balance |-> state.balance, credit_score |-> state.credit_score,
     assets |-> state.assets, debts |-> state.debts,
     transaction_history |-> state.transaction_history]

\* C10: two branch engines created from the same snapshot with the same
\* modifications and run over the same dates end in the same final state.
BranchingDeterminism ==
    \A i, j \in DOMAIN unit.branches :
        (/\ i < j
         /\ unit.branches[i].snapshot_id = unit.branches[j].snapshot_id
         /\ unit.branches[i].modifications = unit.branches[j].modifications
         /\ unit.branches[i].ran # None
         /\ unit.branches[i].ran = unit.branches[j].ran)
        => FinalState(i + 1) = FinalState(j + 1)

(***************************************************************************)
(* SpecDet: two engines built from the same configuration, each over its   *)
(* own newly built DAG and with its own state manager, each driven by run  *)
(* and by step over the days of the configured range.  unit.calls is a     *)
(* history variable: the calls made on each engine.                        *)
(***************************************************************************)

\* calls made on one engine
MaxCalls == 2

DetInit ==
    \E alpha \in Alphas, seed \in Seeds, balance \in InitialBalances,
       holdings \in Holdings :
        LET config == SimulationConfig(RunStart, RunEnd, balance, Dec(700, 0), seed)
            e1 == SimulationEngine(config, 1, 1, <<>>)
            h1 == Hold(e1.heap, e1.engine.current_state, holdings)
            e2 == SimulationEngine(config, 2, 2, h1)
            h2 == Hold(e2.heap, e2.engine.current_state, holdings)
        IN /\ dags = <<build_comprehensive_dag(alpha), build_comprehensive_dag(alpha)>>
           /\ managers = <<StateManager, StateManager>>
           /\ engines = <<e1.engine, e2.engine>>
           /\ heap = h2
           /\ unit = [calls |-> <<<<>>, <<>>>>]

\* the day the next step call of engine e is made for
RECURSIVE DayAfter(_, _)
DayAfter(current_date, n) ==
    IF n = 0 THEN current_date ELSE DayAfter(NextDay(current_date), n - 1)

\* what the named call on engine e that returned s leaves behind
DetCalled(e, call, s) ==
    /\ engines' = [engines EXCEPT ![e] = s.engine]
    /\ dags' = [dags EXCEPT ![e] = s.dag]
    /\ managers' = [managers EXCEPT ![e] = s.manager]
    /\ heap' = s.heap
    /\ unit' = [unit EXCEPT !.calls[e] = Append(@, call)]

DetRun ==
    \E e \in DOMAIN engines :
        /\ Len(unit.calls[e]) < MaxCalls
        /\ DetCalled(e, "run",
                     run(engines[e], dags[e], managers[e], heap, None, None))

DetStep ==
    \E e \in DOMAIN engines :
        /\ Len(unit.calls[e]) < MaxCalls
        /\ DetCalled(e, "step",
                     step(engines[e], dags[e], managers[e], heap,
                          DayAfter(engines[e].config.start_date,
                                   Len(unit.calls[e]))))

DetNext ==
    \/ DetRun
    \/ DetStep

SpecDet == DetInit /\ [][DetNext]_vars

\* what a run is compared by: final_balance, credit_score, the daily_metrics
\* rows and the transaction_history
Outputs(e) ==
    LET state == Load(heap, engines[e].current_state) IN
    [final_balance |-> state.balance, credit_score |-> state.credit_score,
     daily_metrics |-> engines[e].daily_metrics,
     transaction_history |-> state.transaction_history]

\* C1: two engines built from the same configuration and seed, each over a
\* newly built DAG, that were driven through the same calls agree on the
\* final balance, the credit score, every daily_metrics row and the
\* transaction history.
Determinism ==
    unit.calls[1] = unit.calls[2] => Outputs(1) = Outputs(2)

\* both engines ran the whole range, and random draws decided what happened:
\* a variable income was paid on some day
DeterminismWitness ==
    /\ unit.calls[1] = <<"run">>
    /\ unit.calls[2] = <<"run">>
    /\ Len(engines[1].daily_metrics) = 2
    /\ "income:variable" \in Categories(heap[engines[1].current_state])
    /\ "income:variable" \in Categories(heap[engines[2].current_state])

(***************************************************************************)
(* SpecManager: one StateManager driven through create_snapshot,            *)
(* branch_from_snapshot, switch_timeline and get_timeline, with ids that    *)
(* it knows and ids that it does not.                                       *)
(***************************************************************************)

\* create_snapshot calls in one behaviour
MaxMgrSnapshots == 2

\* timelines a manager grows to
MaxTimelines == 3

\* modifications handed to branch_from_snapshot: none, a balance alone, and
\* a balance with an asset under a key the state has, an asset under a new
\* key and a debt
MgrModifications ==
    {NoModifications,
     [balance |-> Some(Dec(10000, 0)), assets |-> <<>>, debts |-> <<>>],
     [balance |-> Some(Dec(-500, 0)),
      assets |-> <<Asset("stocks", "stocks", Dec(50, 0), TRUE, Dec(5, 2)),
                   Asset("bonds", "bonds", Dec(1000, 0), TRUE, Dec(1, 2))>>,
      debts |-> <<Debt("card", Dec(500, 0), Dec(24, 2), Dec(100, 0))>>]}

\* ids handed in: every id the manager has drawn and one it has not
MgrIds == 1..(managers[1].uuids + 1)

MgrInit ==
    \E balance \in InitialBalances, holdings \in Holdings :
        LET n == New(<<>>, WalletState(RunStart, balance, Dec(700, 0)))
        IN /\ dags = <<>>
           /\ engines = <<>>
           /\ managers = <<StateManager>>
           /\ heap = Hold(n.heap, n.ref, holdings)
           /\ unit = [op |-> "init", raised |-> "no", made |-> 0,
                      id |-> 0, modifications |-> NoModifications]

\* what a call of create_snapshot that returned c leaves behind
MgrSnapshotMade(c) ==
    /\ managers' = <<c.manager>>
    /\ heap' = c.heap
    /\ unit' = [op |-> "create_snapshot", raised |-> "no",
                made |-> unit.made + 1, id |-> c.snapshot.snapshot_id,
                modifications |-> NoModifications]
    /\ UNCHANGED <<dags, engines>>

MgrCreateSnapshot ==
    /\ unit.made < MaxMgrSnapshots
    /\ MgrSnapshotMade(create_snapshot(managers[1], heap, 1,
                                       heap[1].current_date, <<"">>, None))

\* what a call of branch_from_snapshot that returned b leaves behind
MgrBranched(snapshot_id, modifications, b) ==
    /\ managers' = <<b.manager>>
    /\ heap' = b.heap
    /\ unit' = [unit EXCEPT !.op = "branch_from_snapshot", !.raised = b.raised,
                            !.id = snapshot_id,
                            !.modifications = modifications]
    /\ UNCHANGED <<dags, engines>>

MgrBranch ==
    /\ Len(managers[1].timelines) < MaxTimelines
    /\ \E snapshot_id \in MgrIds, modifications \in MgrModifications :
        MgrBranched(snapshot_id, modifications,
                    branch_from_snapshot(managers[1], heap, snapshot_id,
                                         modifications))

MgrSwitchTimeline ==
    \E timeline_id \in MgrIds :
        /\ managers' = <<SwitchTimeline(managers[1], timeline_id).manager>>
        /\ unit' = [unit EXCEPT
                       !.op = "switch_timeline",
                       !.raised = SwitchTimeline(managers[1], timeline_id).raised,
                       !.id = timeline_id,
                       !.modifications = NoModifications]
        /\ UNCHANGED <<dags, engines, heap>>

MgrGetTimeline ==
    \E timeline_id \in {None} \cup {Some(i) : i \in MgrIds} :
        /\ unit' = [unit EXCEPT
                       !.op = "get_timeline",
                       !.raised = GetTimeline(managers[1], timeline_id).raised,
                       !.id = IF timeline_id = None THEN 0 ELSE timeline_id[1],
                       !.modifications = NoModifications]
        /\ UNCHANGED <<dags, engines, managers, heap>>

MgrNext ==
    \/ MgrCreateSnapshot
    \/ MgrBranch
    \/ MgrSwitchTimeline
    \/ MgrGetTimeline

SpecManager == MgrInit /\ [][MgrNext]_vars

\* the timelines of m that hold a snapshot under snapshot_id
HoldersOf(m, snapshot_id) ==
    {i \in DOMAIN m.timelines :
        \E j \in DOMAIN m.timelines[i].snapshots :
            m.timelines[i].snapshots[j].snapshot_id = snapshot_id}

SnapshotIds(m) == {sn.snapshot_id : sn \in SnapshotsOf(m)}

\* dict.update as the spec words it: an asset under a key of the map takes
\* the place of the one there, the others are added after them
Merged(assets, more) ==
    [i \in DOMAIN assets |->
        IF \E j \in DOMAIN more : more[j].name = assets[i].name
        THEN more[CHOOSE j \in DOMAIN more : more[j].name = assets[i].name]
        ELSE assets[i]]
    \o SelectSeq(more, LAMBDA a :
                     \A i \in DOMAIN assets : assets[i].name # a.name)

\* the snapshot state with the modifications the spec lists
Modified(state, modifications) ==
    [state EXCEPT
        !.balance = IF modifications.balance # None
                    THEN modifications.balance[1] ELSE @,
        !.assets = Merged(@, modifications.assets),
        !.debts = @ \o modifications.debts]

\* C11: branch_from_snapshot of a snapshot held by any timeline adds one
\* timeline whose parent_id is the holder, with one state under the
\* snapshot's date that equals the snapshot's state with the balance
\* replaced, the assets merged and the debts appended as the modifications
\* say; the source snapshot's state and the other timelines stay as they were.
BranchConstruction ==
    \A snapshot_id \in SnapshotIds(managers[1]),
       modifications \in MgrModifications :
        LET m == managers[1]
            b == branch_from_snapshot(m, heap, snapshot_id, modifications)
            holder == m.timelines[CHOOSE i \in HoldersOf(m, snapshot_id) : TRUE]
            source_snapshot ==
                CHOOSE sn \in SnapshotsOf(m) : sn.snapshot_id = snapshot_id
            new_timeline == b.manager.timelines[Len(b.manager.timelines)]
        IN /\ b.raised = "no"
           /\ Cardinality(HoldersOf(m, snapshot_id)) = 1
           /\ SubSeq(b.manager.timelines, 1, Len(m.timelines)) = m.timelines
           /\ Len(b.manager.timelines) = Len(m.timelines) + 1
           /\ new_timeline.timeline_id = b.timeline_id
           /\ b.timeline_id \notin TimelineIds(m)
           /\ new_timeline.parent_id = Some(holder.timeline_id)
           /\ Len(new_timeline.states) = 1
           /\ new_timeline.states[1][1] = source_snapshot.simulation_date
           /\ Load(b.heap, new_timeline.states[1][2])
                  = Modified(Load(heap, source_snapshot.state), modifications)
           /\ Load(b.heap, source_snapshot.state)
                  = Load(heap, source_snapshot.state)

\* a branch was made with every kind of modification from a snapshot that a
\* timeline other than the main one holds, and whose state has the asset the
\* modification replaces
BranchConstructionWitness ==
    /\ unit.op = "branch_from_snapshot"
    /\ unit.raised = "no"
    /\ unit.modifications.assets # <<>>
    /\ unit.modifications.debts # <<>>
    /\ \E i \in DOMAIN managers[1].timelines :
          /\ managers[1].timelines[i].timeline_id # managers[1].main_timeline_id
          /\ \E j \in DOMAIN managers[1].timelines[i].snapshots :
                LET sn == managers[1].timelines[i].snapshots[j] IN
                /\ sn.snapshot_id = unit.id
                /\ Load(heap, sn.state).assets # <<>>
    /\ LET new_timeline == managers[1].timelines[Len(managers[1].timelines)]
           installed == Load(heap, new_timeline.states[1][2])
       IN /\ installed.balance = Dec(-500, 0)
          /\ Len(installed.assets) = 3
          /\ Len(installed.debts) = 2

\* C19: branch_from_snapshot under an id no timeline holds raises ValueError
\* and leaves the manager (its timelines among it) and the stored states as
\* they were; switch_timeline and get_timeline under an unknown timeline id
\* raise ValueError and current_timeline_id stays.
UnknownIdsChangeNothing ==
    /\ \A snapshot_id \in MgrIds \ SnapshotIds(managers[1]),
          modifications \in MgrModifications :
           LET b == branch_from_snapshot(managers[1], heap, snapshot_id,
                                         modifications)
           IN b.raised = "ValueError" /\ b.manager = managers[1] /\ b.heap = heap
    /\ \A timeline_id \in MgrIds \ TimelineIds(managers[1]) :
           /\ SwitchTimeline(managers[1], timeline_id).raised = "ValueError"
           /\ SwitchTimeline(managers[1], timeline_id).manager = managers[1]
           /\ GetTimeline(managers[1], Some(timeline_id)).raised = "ValueError"
    /\ (unit.op \in {"switch_timeline", "get_timeline"}
           /\ unit.id # 0 /\ unit.id \notin TimelineIds(managers[1]))
        => unit.raised = "ValueError"

\* switch_timeline was refused for the id of a snapshot while the manager
\* stands on a branch timeline
UnknownIdsChangeNothingWitness ==
    /\ unit.op = "switch_timeline"
    /\ unit.raised = "ValueError"
    /\ unit.id \in SnapshotIds(managers[1])
    /\ managers[1].current_timeline_id # managers[1].main_timeline_id

(***************************************************************************)
(* SpecRun: run() on a newly built engine over a newly built DAG of a      *)
(* monthly expense and a bankruptcy check.                                 *)
(***************************************************************************)

\* days of the short ranges
MaxRunDays == 4

\* first days of the short ranges: before a year end, a month end, the leap
\* day and the end of a February without one
RunStarts ==
    {Date(2023, 12, 30), Date(2024, 1, 31), Date(2024, 2, 27), Date(2025, 2, 27)}

\* <<start_date, end_date>>: ranges of 1..MaxRunDays days and a range that
\* ends before it starts
RunRanges ==
    {<<start, DayAfter(start, n - 1)>> : start \in RunStarts, n \in 1..MaxRunDays}
        \cup {<<Date(2024, 1, 2), Date(2024, 1, 1)>>}

\* ids the bankruptcy check is registered under: the one step looks up, the
\* one build_comprehensive_dag uses, and None for a DAG without the node
BankruptcyIds == {Some("bankruptcy_check"), Some("bankruptcy"), None}

BankruptcyThresholds == {Dec(-500, 0), Dec(-50000, 0)}

RunBalances == {Dec(6000, 0), Dec(1000, 0)}

\* monthly amounts of the expense
RunRents == {Dec(2000, 0), Dec(100, 0)}

RunNodes(rent, bankruptcy_id, bankruptcy_threshold) ==
    <<FixedExpenseNode("rent", rent, 1, <<"Monthly rent">>, <<>>)>>
    \o (IF bankruptcy_id = None THEN <<>>
        ELSE <<BankruptcyCheckNode(bankruptcy_id[1], bankruptcy_threshold,
                                   <<"rent">>)>>)

RunInit ==
    \E range \in RunRanges, balance \in RunBalances, rent \in RunRents,
       bankruptcy_id \in BankruptcyIds,
       bankruptcy_threshold \in BankruptcyThresholds :
        LET config == SimulationConfig(range[1], range[2], balance, Dec(700, 0), 42)
            e == SimulationEngine(config, 1, 1, <<>>)
        IN /\ dags = <<BuildDag(DAGEngine,
                                RunNodes(rent, bankruptcy_id, bankruptcy_threshold),
                                1)>>
           /\ managers = <<StateManager>>
           /\ engines = <<e.engine>>
           /\ heap = e.heap
           /\ unit = [ran |-> FALSE, raised |-> "no"]

\* what the call of run that returned s leaves behind
RunReturned(s) ==
    /\ engines' = <<s.engine>>
    /\ dags' = <<s.dag>>
    /\ managers' = <<s.manager>>
    /\ heap' = s.heap
    /\ unit' = [ran |-> TRUE, raised |-> s.raised]

\* engine.run(), and engine.run(start_date, end_date) with the configured
\* dates
RunFresh ==
    /\ ~unit.ran
    /\ \E dates \in {<<None, None>>,
                      <<Some(engines[1].config.start_date),
                        Some(engines[1].config.end_date)>>} :
        RunReturned(run(engines[1], dags[1], managers[1], heap,
                        dates[1], dates[2]))

SpecRun == RunInit /\ [][RunFresh]_vars

\* date.toordinal(): the day number in the proleptic Gregorian calendar
Ordinal(dt) ==
    LET y == dt.year - 1
        before == <<0, 31, 59, 90, 120, 151, 181, 212, 243, 273, 304, 334>>
    IN 365 * y + (y \div 4) - (y \div 100) + (y \div 400)
       + before[dt.month] + (IF dt.month > 2 /\ IsLeap(dt.year) THEN 1 ELSE 0)
       + dt.day

\* the dates of the daily_metrics rows of engine e, in row order
Executed(e) == [i \in DOMAIN engines[e].daily_metrics |-> engines[e].daily_metrics[i].date]

\* the dates of the states of the main timeline of manager k, in filing order
Filed(k) ==
    LET timeline == get_timeline(managers[k], managers[k].main_timeline_id)
    IN [i \in DOMAIN timeline.states |-> timeline.states[i][1]]

\* C12: run() on a fresh engine returns; the daily_metrics rows and the
\* timeline states are one per date, for start_date, start_date + 1, ... in
\* this order and never past end_date (366 dates from 2024-01-01 to
\* 2024-12-31); the run ends before end_date only with the bankruptcy flag
\* set, and then bankruptcy_date is the last date executed.
SimulatedDays ==
    unit.ran =>
        LET e == engines[1]
            dates == Executed(1)
            n == Len(dates)
            days == Ordinal(e.config.end_date) - Ordinal(e.config.start_date) + 1
        IN /\ unit.raised = "no"
           /\ \A i \in 1..n : Ordinal(dates[i]) = Ordinal(e.config.start_date) + i - 1
           /\ n <= Max(days, 0)
           /\ Filed(1) = dates
           /\ n < days => e.is_bankrupt
           /\ e.is_bankrupt => (n >= 1 /\ e.bankruptcy_date = Some(dates[n]))
           /\ ~e.is_bankrupt => e.bankruptcy_date = None
           /\ Ordinal(Date(2024, 12, 31)) - Ordinal(Date(2024, 1, 1)) + 1 = 366

\* a run over the leap day that went to its end date, and not bankrupt
SimulatedDaysWitness ==
    /\ unit.ran
    /\ ~engines[1].is_bankrupt
    /\ Len(engines[1].daily_metrics) = MaxRunDays
    /\ \E i \in DOMAIN engines[1].daily_metrics :
          engines[1].daily_metrics[i].date = Date(2024, 2, 29)
    /\ engines[1].daily_metrics[MaxRunDays].date = engines[1].config.end_date
    /\ heap[engines[1].current_state].transaction_history # <<>>

\* C13: when a BankruptcyCheckNode of the DAG, whatever its id, sets its
\* flag on day d (it leaves a "bankruptcy" transaction stamped d), the run
\* executes no day after d and records bankruptcy_date = d.
BankruptcyShortCircuit ==
    unit.ran =>
        LET history == heap[engines[1].current_state].transaction_history IN
        \A i \in DOMAIN history :
            history[i].category = "bankruptcy" =>
                /\ engines[1].bankruptcy_date = Some(history[i].timestamp)
                /\ \A k \in DOMAIN engines[1].daily_metrics :
                       DateLeq(engines[1].daily_metrics[k].date,
                               history[i].timestamp)

(***************************************************************************)
(* SpecDec: credits and debits applied to the balance of one wallet, as     *)
(* tests/test_precision.py does (state.balance += amount).                  *)
(***************************************************************************)

\* credits and debits in one behaviour
MaxTx == 4

\* starting balances of at most 2 decimal places
DecBalances == {0, Dec(1, 0), Dec(999, 2), Dec(10, 0), Dec(-5, 1), Dec(250, 0)}

\* operands of at most 2 decimal places
DecAmounts == {Dec(1, 2), Dec(5, 1), Dec(30, 0)}

\* unit.exact is a history variable: the sum of the starting balance and
\* the operands so far in unbounded integer arithmetic
DecInit ==
    \E balance \in DecBalances :
        /\ dags = <<>>
        /\ engines = <<>>
        /\ managers = <<>>
        /\ heap = New(<<>>, WalletState(RunStart, balance, Dec(700, 0))).heap
        /\ unit = [n |-> 0, start |-> balance, exact |-> balance,
                   paired |-> TRUE]

\* state.balance += amount
Credit ==
    /\ unit.n < MaxTx
    /\ \E amount \in DecAmounts :
        /\ heap' = [heap EXCEPT ![1].balance = DAdd(@, amount)]
        /\ unit' = [unit EXCEPT !.n = @ + 1, !.exact = @ + amount,
                                !.paired = unit.paired /\ unit.n % 2 = 0
                                              /\ amount = Dec(1, 2)]
    /\ UNCHANGED <<dags, engines, managers>>

\* state.balance -= amount
Debit ==
    /\ unit.n < MaxTx
    /\ \E amount \in DecAmounts :
        /\ heap' = [heap EXCEPT ![1].balance = DSub(@, amount)]
        /\ unit' = [unit EXCEPT !.n = @ + 1, !.exact = @ - amount,
                                !.paired = unit.paired /\ unit.n % 2 = 1
                                              /\ amount = Dec(1, 2)]
    /\ UNCHANGED <<dags, engines, managers>>

DecNext ==
    \/ Credit
    \/ Debit

SpecDec == DecInit /\ [][DecNext]_vars

\* C20: after any sequence of credits and debits of operands with at most 2
\* decimal places the balance is the exact sum of the starting balance and
\* the operands; after any number of +0.01, -0.01 pairs it is the starting
\* balance.
DecimalExactness ==
    /\ heap[1].balance = unit.exact
    /\ (unit.paired /\ unit.n % 2 = 0) => heap[1].balance = unit.start

(***************************************************************************)
(* SpecFork: a parent engine and one branch engine created from a snapshot  *)
(* of it, stepped in any interleaving; the branch may also be continued     *)
(* with run().  The two engines share the DAG and the state manager.        *)
(*                                                                         *)
(* History variables in unit: pdays and bdays count the days each engine    *)
(* has stepped; snap is the snapshot taken and its date; fork is the        *)
(* timeline create_branch made; steps records, per step, the engine, the    *)
(* date and the reference filed; alone is the world in which the same calls *)
(* were made on the parent and the branch engine never executed a day.      *)
(***************************************************************************)

\* days of the configured range
ForkDays == 3

ForkStart == Date(2024, 1, 31)

ForkEnd == DayAfter(ForkStart, ForkDays - 1)

ForkInit ==
    \E seed \in Seeds, holdings \in Holdings :
        LET config == SimulationConfig(ForkStart, ForkEnd, Dec(6000, 0),
                                       Dec(700, 0), seed)
            e == SimulationEngine(config, 1, 1, <<>>)
            h == Hold(e.heap, e.engine.current_state, holdings)
            dag == build_comprehensive_dag(Dec(10, 0))
        IN /\ dags = <<dag>>
           /\ managers = <<StateManager>>
           /\ engines = <<e.engine>>
           /\ heap = h
           /\ unit = [pdays |-> 0, bdays |-> 0, snap |-> None, fork |-> None,
                      steps |-> <<>>, last |-> "init",
                      alone |-> [engine |-> e.engine, dag |-> dag,
                                 manager |-> StateManager, heap |-> h]]

\* the reference the current timeline of m holds under simulation_date
FiledRef(m, simulation_date) ==
    LET st == get_timeline(m, m.current_timeline_id).states
    IN st[CHOOSE i \in DOMAIN st : st[i][1] = simulation_date][2]

\* what a call of step(current_date) on engine e that returned s leaves
\* behind, a being the world without branch days after the call
ForkStepped(e, current_date, s, a) ==
    /\ engines' = [engines EXCEPT ![e] = s.engine]
    /\ dags' = <<s.dag>>
    /\ managers' = <<s.manager>>
    /\ heap' = s.heap
    /\ unit' = [unit EXCEPT
                   !.pdays = IF e = 1 THEN @ + 1 ELSE @,
                   !.bdays = IF e = 2 THEN @ + 1 ELSE @,
                   !.steps = Append(@, [by |-> e, date |-> current_date,
                                        ref |-> FiledRef(s.manager, current_date)]),
                   !.last = "step",
                   !.alone = a]

\* the world without branch days after the parent stepped in it
AloneStepped(a, s) ==
    [engine |-> s.engine, dag |-> s.dag, manager |-> s.manager, heap |-> s.heap]

\* parent.step(current_date) on the parent's next day
ForkParentStep ==
    /\ unit.pdays < ForkDays
    /\ LET current_date == DayAfter(ForkStart, unit.pdays) IN
        ForkStepped(1, current_date,
                    step(engines[1], dags[1], managers[1], heap, current_date),
                    AloneStepped(unit.alone,
                                 step(unit.alone.engine, unit.alone.dag,
                                      unit.alone.manager, unit.alone.heap,
                                      current_date)))

\* what parent.create_snapshot() that returned c leaves behind
ForkSnapshotMade(c, a) ==
    /\ managers' = <<c.manager>>
    /\ heap' = c.heap
    /\ unit' = [unit EXCEPT
                   !.snap = Some(<<c.snapshot.snapshot_id,
                                   c.snapshot.simulation_date>>),
                   !.last = "create_snapshot",
                   !.alone = [@ EXCEPT !.manager = a.manager, !.heap = a.heap]]
    /\ UNCHANGED <<engines, dags>>

\* parent.create_snapshot() after at least one day
ForkCreateSnapshot ==
    /\ unit.snap = None
    /\ unit.pdays > 0
    /\ ForkSnapshotMade(EngineCreateSnapshot(engines[1], managers[1], heap, <<"">>),
                        EngineCreateSnapshot(unit.alone.engine, unit.alone.manager,
                                             unit.alone.heap, <<"">>))

\* what parent.create_branch(snapshot_id) that returned b leaves behind
Forked(b, a) ==
    /\ engines' = Append(engines, b.engine)
    /\ managers' = <<b.manager>>
    /\ heap' = b.heap
    /\ unit' = [unit EXCEPT
                   !.fork = Some(b.manager.current_timeline_id),
                   !.last = "create_branch",
                   !.alone = [@ EXCEPT !.manager = a.manager, !.heap = a.heap]]
    /\ UNCHANGED dags

ForkCreateBranch ==
    /\ unit.snap # None
    /\ unit.fork = None
    /\ \E modifications \in Modifications :
        Forked(create_branch(engines[1], 1, managers[1], heap,
                             unit.snap[1][1], modifications),
               create_branch(unit.alone.engine, 1, unit.alone.manager,
                             unit.alone.heap, unit.snap[1][1], modifications))

\* the day after the branch point and the days the branch has stepped
BranchDay == DayAfter(unit.snap[1][2], unit.bdays + 1)

\* branch.step(current_date) on the branch's next day after the branch point
ForkBranchStep ==
    /\ unit.fork # None
    /\ unit.last # "run"
    /\ DateLeq(BranchDay, ForkEnd)
    /\ ForkStepped(2, BranchDay,
                   step(engines[2], dags[1], managers[1], heap, BranchDay),
                   unit.alone)

\* what branch.run() that returned s leaves behind
ForkRan(s) ==
    /\ engines' = [engines EXCEPT ![2] = s.engine]
    /\ dags' = <<s.dag>>
    /\ managers' = <<s.manager>>
    /\ heap' = s.heap
    /\ unit' = [unit EXCEPT !.last = "run"]

\* branch.run(): the branch continued to the configured end date
ForkBranchRun ==
    /\ unit.fork # None
    /\ unit.last # "run"
    /\ ForkRan(run(engines[2], dags[1], managers[1], heap, None, None))

ForkNext ==
    \/ ForkParentStep
    \/ ForkCreateSnapshot
    \/ ForkCreateBranch
    \/ ForkBranchStep
    \/ ForkBranchRun

SpecFork == ForkInit /\ [][ForkNext]_vars

NonDecreasing(dates) ==
    \A i, j \in DOMAIN dates : i < j => DateLeq(dates[i], dates[j])

MetricDates(e) ==
    [i \in DOMAIN engines[e].daily_metrics |-> engines[e].daily_metrics[i].date]

Timestamps(e) ==
    LET th == heap[engines[e].current_state].transaction_history
    IN [i \in DOMAIN th |-> th[i].timestamp]

\* C21: in every engine the daily_metrics rows and the timestamps of the
\* transaction history are in non-decreasing date order, and a branch engine
\* created from a snapshot taken at date D has, after stepping or run(), only
\* rows dated after D.
DateOrder ==
    /\ \A e \in DOMAIN engines :
          NonDecreasing(MetricDates(e)) /\ NonDecreasing(Timestamps(e))
    /\ \A e \in DOMAIN engines : e > 1 =>
          \A i \in DOMAIN engines[e].daily_metrics :
              DateLess(unit.snap[1][2], engines[e].daily_metrics[i].date)

\* the timeline of the engine: the main timeline for the parent, the
\* timeline create_branch made for the branch engine
TimelineOf(e) == IF e = 1 THEN managers[1].main_timeline_id ELSE unit.fork[1]

Holds2(timeline_id, simulation_date, ref) ==
    LET st == get_timeline(managers[1], timeline_id).states
    IN \E i \in DOMAIN st : st[i] = <<simulation_date, ref>>

\* C23: the state each step filed is held, under the step's date, by the
\* timeline of the engine that stepped and by no other timeline, and the
\* parent's result reports the parent's timeline id.
TimelineIsolation ==
    /\ \A i \in DOMAIN unit.steps :
          LET r == unit.steps[i] IN
          \A timeline_id \in TimelineIds(managers[1]) :
              Holds2(timeline_id, r.date, r.ref) <=> timeline_id = TimelineOf(r.by)
    /\ get_result(engines[1], managers[1], heap).timeline_id
           = managers[1].main_timeline_id

\* what the days of an engine produced: the live balance, the transactions
\* and the metric rows
Produced(engine, h) ==
    [balance |-> h[engine.current_state].balance,
     transaction_history |-> h[engine.current_state].transaction_history,
     daily_metrics |-> engine.daily_metrics]

\* C24: the parent's balances, transactions and metric rows are those of
\* the world in which the same calls were made on the parent and the branch
\* engine never executed a day.
ParentNonInterference ==
    Produced(engines[1], heap) = Produced(unit.alone.engine, unit.alone.heap)

(***************************************************************************)
(* SpecScenario: a ScenarioRunner over one DAG, asked for scenario sweeps.  *)
(* unit.runner is the runner, unit.alpha the alpha of the DAG's credit      *)
(* node, unit.results what the latest run_scenarios returned.               *)
(***************************************************************************)

\* largest num_scenarios asked for
MaxScenarios == 2

\* calls of run_scenarios in one behaviour
MaxSweeps == 2

ScenarioRanges ==
    {<<Date(2024, 1, 1), Date(2024, 1, 2)>>,
     <<Date(2024, 1, 31), Date(2024, 2, 1)>>,
     <<Date(2024, 12, 31), Date(2024, 12, 31)>>}

ScenarioInit ==
    \E alpha \in Alphas, seed \in Seeds, balance \in InitialBalances,
       score \in InitialScores, range \in ScenarioRanges :
        /\ dags = <<build_comprehensive_dag(alpha)>>
        /\ engines = <<>>
        /\ managers = <<>>
        /\ heap = <<>>
        /\ unit = [runner |-> ScenarioRunner(
                                  SimulationConfig(range[1], range[2], balance,
                                                   score, seed), 1),
                   alpha |-> alpha, sweeps |-> 0, results |-> <<>>]

\* what a call of run_scenarios that returned r leaves behind
ScenariosRun(r) ==
    /\ dags' = <<r.dag>>
    /\ engines' = r.engines
    /\ managers' = r.managers
    /\ heap' = r.heap
    /\ unit' = [unit EXCEPT !.sweeps = @ + 1, !.results = r.results]

RunScenariosCall ==
    /\ unit.sweeps < MaxSweeps
    /\ \E num_scenarios \in 1..MaxScenarios :
        ScenariosRun(run_scenarios(unit.runner, dags[1], engines, managers, heap,
                                   num_scenarios))

SpecScenario == ScenarioInit /\ [][RunScenariosCall]_vars

\* what a result is compared by
ResultValue(r, h) ==
    LET state == Load(h, r.result.final_state) IN
    [raised |-> r.raised, final_balance |-> r.result.final_balance,
     net_asset_value |-> r.result.net_asset_value,
     credit_score |-> state.credit_score, assets |-> state.assets,
     debts |-> state.debts, transaction_history |-> state.transaction_history]

\* the result of StandAloneRun's engine
StandAloneResult(s) ==
    ResultValue([result |-> get_result(s.engine, s.manager, s.heap),
                 raised |-> s.raised], s.heap)

\* the engine of StandAlone run
StandAloneRun(e) ==
    StandAloneResult(run(e.engine, build_comprehensive_dag(unit.alpha),
                         StateManager, e.heap, None, None))

\* a stand-alone engine with seed base_seed + i over a newly built DAG, run
StandAlone(i) ==
    StandAloneRun(SimulationEngine(
        [unit.runner.base_config EXCEPT !.random_seed = @ + i], 1, 1, <<>>))

\* C25: the result run_scenarios returned for scenario i is that of a
\* stand-alone engine with seed base_seed + i over a newly built DAG.
ScenarioIndependence ==
    \A k \in DOMAIN unit.results :
        ResultValue(unit.results[k], heap) = StandAlone(k - 1)

(***************************************************************************)
(* SpecSalary: one SalaryNode executed on days of strictly increasing       *)
(* dates, as step(date) and execute_daily allow.  History variables in      *)
(* unit: date is the day last executed, before the wallet before it,        *)
(* result what execute returned.                                            *)
(***************************************************************************)

\* the days a behaviour picks from, payment days of the same month in two
\* years among them
SalaryDates ==
    {Date(2024, 1, 1), Date(2024, 1, 31), Date(2024, 2, 1), Date(2024, 6, 15),
     Date(2025, 1, 1), Date(2025, 1, 31), Date(2025, 2, 1)}

SalaryPaymentDays == {1, 31}

AnnualSalaries == {Dec(60000, 0), Dec(75000, 0)}

SalaryBalances == {0, Dec(-2000, 0)}

SalaryInit ==
    \E annual_salary \in AnnualSalaries, payment_day \in SalaryPaymentDays,
       balance \in SalaryBalances :
        /\ dags = <<add_node(DAGEngine,
                             SalaryNode("salary", annual_salary, payment_day, <<>>)).dag>>
        /\ engines = <<>>
        /\ managers = <<>>
        /\ heap = New(<<>>, WalletState(Date(2024, 1, 1), balance, Dec(700, 0))).heap
        /\ unit = [date |-> None, before |-> None, result |-> 0]

\* what node.execute(state, context) on current_date that returned o leaves
\* behind
SalaryExecuted(current_date, o) ==
    /\ dags' = <<[dags[1] EXCEPT !.nodes[1] = [o.node EXCEPT !.last_value = Some(o.result)]]>>
    /\ heap' = Store(heap, 1, o.state)
    /\ unit' = [date |-> Some(current_date), before |-> Some(Load(heap, 1)),
                result |-> o.result]
    /\ UNCHANGED <<engines, managers>>

\* the node executed on a day later than every day executed before
SalaryDay ==
    \E current_date \in SalaryDates :
        /\ unit.date # None => DateLess(unit.date[1], current_date)
        /\ SalaryExecuted(current_date,
                          SalaryExecute(dags[1].nodes[1], Load(heap, 1),
                                        ExecutionContext(current_date, NewRandom(42))))

SpecSalary == SalaryInit /\ [][SalaryDay]_vars

\* C26: on a day whose day-of-month is payment_day (with strictly increasing
\* dates the first and only such day of its calendar month) the node
\* credits annual_salary / 12 to balance and total_income_ytd, appends one
\* income:salary transaction and returns the amount; on every other day it
\* returns 0 and leaves the wallet as it was.
SalaryEveryMonth ==
    unit.date # None =>
        LET node == dags[1].nodes[1]
            before == unit.before[1]
            after == Load(heap, 1)
            monthly_salary == DDiv(node.annual_salary, Dec(12, 0))
        IN IF unit.date[1].day = node.payment_day
           THEN /\ unit.result = monthly_salary
                /\ after.balance = DAdd(before.balance, monthly_salary)
                /\ after.total_income_ytd
                       = DAdd(before.total_income_ytd, monthly_salary)
                /\ Len(after.transaction_history)
                       = Len(before.transaction_history) + 1
                /\ after.transaction_history[Len(after.transaction_history)].category
                       = "income:salary"
           ELSE unit.result = 0 /\ after = before

(***************************************************************************)
(* SpecCredit: one CreditScoreNode executed day after day on a wallet       *)
(* whose balance, income, debts and score are drawn at the start.           *)
(* unit.before is the wallet before the latest execution.                   *)
(***************************************************************************)

\* executions of the node in one behaviour
MaxCreditDays == 2

CreditBalances == {Dec(20000, 0), Dec(5000, 0), Dec(-500, 0), Dec(-2000, 0)}

CreditIncomes == {0, Dec(5000, 0), Dec(50000, 0), Dec(100000, 0)}

\* debts by total principal and missed payments
CreditDebts ==
    {<<>>,
     <<Debt("loan", Dec(8000, 0), Dec(6, 2), Dec(300, 0))>>,
     <<[Debt("loan", Dec(20000, 0), Dec(6, 2), Dec(300, 0))
           EXCEPT !.missed_payments = 1]>>,
     <<[Debt("loan", Dec(30000, 0), Dec(6, 2), Dec(300, 0))
           EXCEPT !.missed_payments = 2],
       [Debt("card", Dec(10000, 0), Dec(24, 2), Dec(100, 0))
           EXCEPT !.missed_payments = 1]>>}

CreditScores == {Dec(300, 0), Dec(700, 0), Dec(850, 0)}

CreditDate == Date(2024, 1, 1)

CreditInit ==
    \E alpha \in Alphas, balance \in CreditBalances, income \in CreditIncomes,
       debts \in CreditDebts, score \in CreditScores :
        LET n == New(<<>>, [WalletState(CreditDate, balance, score)
                               EXCEPT !.total_income_ytd = income])
        IN /\ dags = <<add_node(DAGEngine,
                                CreditScoreNode("credit_score", alpha, <<>>)).dag>>
           /\ engines = <<>>
           /\ managers = <<>>
           /\ heap = Hold(n.heap, n.ref, [assets |-> <<>>, debts |-> debts])
           /\ unit = [days |-> 0, before |-> None, result |-> 0]

\* what node.execute(state, context) that returned o leaves behind
CreditExecuted(o) ==
    /\ dags' = <<[dags[1] EXCEPT !.nodes[1] = [o.node EXCEPT !.last_value = Some(o.result)]]>>
    /\ heap' = Store(heap, 1, o.state)
    /\ unit' = [days |-> unit.days + 1, before |-> Some(Load(heap, 1)),
                result |-> o.result]
    /\ UNCHANGED <<engines, managers>>

CreditDay ==
    /\ unit.days < MaxCreditDays
    /\ CreditExecuted(CreditScoreExecute(dags[1].nodes[1], Load(heap, 1),
                          ExecutionContext(DayAfter(CreditDate, unit.days),
                                           NewRandom(42))))

SpecCredit == CreditInit /\ [][CreditDay]_vars

\* the reference update: debt ratio over max(total_income_ytd, 50000)
ReferenceScore(state, alpha) ==
    LET debt_ratio == DDiv(get_total_debt(state),
                           Max(state.total_income_ytd, Dec(50000, 0)))
        debt_impact == IF debt_ratio < Dec(3, 1) THEN Dec(2, 0)
                       ELSE IF debt_ratio < Dec(5, 1) THEN 0
                       ELSE Dec(-3, 0)
        total_missed == SumMissed(state.debts)
        punctuality_impact == IF total_missed = 0 THEN Dec(1, 0)
                              ELSE IF total_missed <= 2 THEN Dec(-2, 0)
                              ELSE Dec(-5, 0)
        balance_impact == IF state.balance > Dec(10000, 0) THEN Dec(1, 0)
                          ELSE IF state.balance > 0 THEN Dec(5, 1)
                          ELSE IF state.balance > Dec(-1000, 0) THEN Dec(-1, 0)
                          ELSE Dec(-3, 0)
        new_score == DAdd(state.credit_score,
                          DMul(alpha, DAdd(DAdd(debt_impact, punctuality_impact),
                                           balance_impact)))
    IN Max(Dec(300, 0), Min(Dec(850, 0), new_score))

\* C27: the score the node leaves is the reference update of the score it
\* found: clamp(old + alpha * (debt_impact + punctuality_impact +
\* balance_impact), 300, 850) with the debt ratio taken over
\* max(total_income_ytd, 50000).
CreditScoreReference ==
    unit.before # None =>
        heap[1].credit_score
            = ReferenceScore(unit.before[1], dags[1].nodes[1].alpha)

(***************************************************************************)
(* SpecDebt: one DebtPaymentNode executed on days of strictly increasing    *)
(* dates on a wallet whose balance and debts are drawn at the start.        *)
(* History variables in unit: date is the day last executed, before the     *)
(* wallet before it, result what execute returned.                          *)
(***************************************************************************)

DebtPaymentDay == 15

\* the days a behaviour picks from
DebtDates ==
    {Date(2024, 1, 15), Date(2024, 1, 16), Date(2024, 2, 15),
     Date(2025, 1, 15), Date(2025, 2, 15)}

DebtBalances == {Dec(1000, 0), Dec(350, 0), 0, Dec(-200, 0)}

\* a loan being paid down, a card whose monthly interest exceeds its
\* payment, and a loan whose last payment exceeds what is owed
DebtLists ==
    {<<Debt("loan", Dec(8000, 0), Dec(6, 2), Dec(300, 0))>>,
     <<Debt("loan", Dec(8000, 0), Dec(6, 2), Dec(300, 0)),
       Debt("card", Dec(8000, 0), Dec(24, 2), Dec(100, 0))>>,
     <<Debt("small", Dec(200, 0), Dec(6, 2), Dec(300, 0)),
       Debt("free", Dec(500, 0), 0, 0)>>}

DebtInit ==
    \E balance \in DebtBalances, debts \in DebtLists :
        LET n == New(<<>>, WalletState(Date(2024, 1, 1), balance, Dec(700, 0)))
        IN /\ dags = <<add_node(DAGEngine,
                                DebtPaymentNode("debt_payments", DebtPaymentDay,
                                                <<>>)).dag>>
           /\ engines = <<>>
           /\ managers = <<>>
           /\ heap = Hold(n.heap, n.ref, [assets |-> <<>>, debts |-> debts])
           /\ unit = [date |-> None, before |-> None, result |-> 0]

\* what node.execute(state, context) on current_date that returned o leaves
\* behind
DebtExecuted(current_date, o) ==
    /\ dags' = <<[dags[1] EXCEPT !.nodes[1] = [o.node EXCEPT !.last_value = Some(o.result)]]>>
    /\ heap' = Store(heap, 1, o.state)
    /\ unit' = [date |-> Some(current_date), before |-> Some(Load(heap, 1)),
                result |-> o.result]
    /\ UNCHANGED <<engines, managers>>

\* the node executed on a day later than every day executed before
DebtDay ==
    \E current_date \in DebtDates :
        /\ unit.date # None => DateLess(unit.date[1], current_date)
        /\ DebtExecuted(current_date,
                        DebtPaymentExecute(dags[1].nodes[1], Load(heap, 1),
                                           ExecutionContext(current_date,
                                                            NewRandom(42))))

SpecDebt == DebtInit /\ [][DebtDay]_vars

RECURSIVE Settle(_, _, _, _, _)
\* all-or-nothing settlement of debts[i], debts[i+1], ... in list order: the
\* balance left, the missed_payments of each debt and the total debited
Settle(balance, debts, i, missed, total) ==
    IF i > Len(debts)
    THEN [balance |-> balance, missed |-> missed, total |-> total]
    ELSE IF balance >= debts[i].monthly_payment
    THEN Settle(DSub(balance, debts[i].monthly_payment), debts, i + 1,
                Append(missed, debts[i].missed_payments),
                DAdd(total, debts[i].monthly_payment))
    ELSE Settle(balance, debts, i + 1,
                Append(missed, debts[i].missed_payments + 1), total)

\* the all-or-nothing settlement r of the wallet before is what the node
\* left in the wallet after
SettledAs(before, after, r) ==
    /\ after.balance = r.balance
    /\ [i \in DOMAIN after.debts |-> after.debts[i].missed_payments] = r.missed
    /\ unit.result = r.total
    /\ unit.result = DSub(before.balance, after.balance)
    /\ before.balance >= 0 => after.balance >= 0

\* C28: on a day whose day-of-month is the payment day the node settles the
\* debts in list order, each either by a debit of exactly monthly_payment
\* (when the balance of the moment covers it, missed_payments unchanged) or
\* by no debit and one more missed payment; a non-negative balance stays
\* non-negative and the value returned is the total debited.
NoPartialPayments ==
    (unit.date # None /\ unit.date[1].day = dags[1].nodes[1].payment_day) =>
        SettledAs(unit.before[1], Load(heap, 1),
                  Settle(unit.before[1].balance, unit.before[1].debts, 1, <<>>, 0))

\* the latest execution appended a payment transaction for the debt
PaidOn(before, after, name) ==
    \E k \in DOMAIN after.transaction_history :
        /\ k > Len(before.transaction_history)
        /\ after.transaction_history[k].description = <<"Debt payment", name>>

\* C29: a debt on which the node made a payment has afterwards a principal
\* that is at least 0 and at most its principal before; a debt on which no
\* payment was made keeps its principal.
PrincipalOnlyDown ==
    unit.date # None =>
        LET before == unit.before[1]
            after == Load(heap, 1)
        IN \A i \in DOMAIN after.debts :
              IF PaidOn(before, after, after.debts[i].name)
              THEN /\ after.debts[i].principal >= 0
                   /\ after.debts[i].principal <= before.debts[i].principal
              ELSE after.debts[i].principal = before.debts[i].principal

(***************************************************************************)
(* SpecTax: one IncomeTaxNode with the default brackets executed on days of *)
(* strictly increasing dates on a wallet whose year-to-date income is drawn *)
(* at the start.  History variables in unit: date is the day last executed, *)
(* before the wallet before it, result what execute returned.               *)
(***************************************************************************)

\* whole amounts on both sides of every bracket bound, 0 and a negative
\* amount among them
TaxIncomes ==
    {Dec(-1000, 0), 0, Dec(5000, 0), Dec(10000, 0), Dec(12500, 0),
     Dec(40000, 0), Dec(45000, 0), Dec(50000, 0), Dec(85000, 0),
     Dec(90000, 0), Dec(100000, 0), Dec(160000, 0), Dec(200000, 0)}

TaxBalances == {Dec(60000, 0), Dec(1000, 0), Dec(-500, 0)}

\* the days a behaviour picks from
TaxDates == {Date(2024, 12, 30), Date(2024, 12, 31), Date(2025, 12, 31)}

TaxInit ==
    \E income \in TaxIncomes, balance \in TaxBalances :
        /\ dags = <<add_node(DAGEngine,
                             IncomeTaxNode("taxes", DefaultBrackets, 12, 31, <<>>)).dag>>
        /\ engines = <<>>
        /\ managers = <<>>
        /\ heap = New(<<>>, [WalletState(Date(2024, 1, 1), balance, Dec(700, 0))
                                EXCEPT !.total_income_ytd = income]).heap
        /\ unit = [date |-> None, before |-> None, result |-> 0]

\* what node.execute(state, context) on current_date that returned o leaves
\* behind
TaxExecuted(current_date, o) ==
    /\ dags' = <<[dags[1] EXCEPT !.nodes[1] = [o.node EXCEPT !.last_value = Some(o.result)]]>>
    /\ heap' = Store(heap, 1, o.state)
    /\ unit' = [date |-> Some(current_date), before |-> Some(Load(heap, 1)),
                result |-> o.result]
    /\ UNCHANGED <<engines, managers>>

\* the node executed on a day later than every day executed before
TaxDay ==
    \E current_date \in TaxDates :
        /\ unit.date # None => DateLess(unit.date[1], current_date)
        /\ TaxExecuted(current_date,
                       IncomeTaxExecute(dags[1].nodes[1], Load(heap, 1),
                                        ExecutionContext(current_date,
                                                         NewRandom(42))))

SpecTax == TaxInit /\ [][TaxDay]_vars

RECURSIVE ReferenceTax(_, _, _)
\* the sum over brackets[i], brackets[i+1], ... of
\* rate * max(0, min(income, upper) - lower), in whole-number arithmetic on
\* a whole income
ReferenceTax(brackets, income, i) ==
    IF i > Len(brackets) THEN 0
    ELSE LET top == IF brackets[i].upper_bound = None THEN income
                    ELSE Min(income, brackets[i].upper_bound[1])
             in_bracket == Max(0, top - brackets[i].lower_bound)
         IN brackets[i].rate * (in_bracket \div Pow10(Prec))
                + ReferenceTax(brackets, income, i + 1)

\* the annual tax was deducted by the latest execution
TaxPaid ==
    /\ unit.date # None
    /\ Len(heap[1].transaction_history)
           > Len(unit.before[1].transaction_history)

\* C30: with the default brackets calculate_tax(income) is the sum over the
\* brackets of rate * max(0, min(income, upper) - lower), 6800 for an income
\* of 50000, 0 for an income of 0 or less, and non-decreasing in the income;
\* and the tax the node deducts is that sum for the year-to-date income.
ProgressiveTax ==
    LET node == dags[1].nodes[1] IN
    /\ \A income \in TaxIncomes :
          /\ calculate_tax(node, income) = ReferenceTax(DefaultBrackets, income, 1)
          /\ income <= 0 => calculate_tax(node, income) = 0
          /\ \A more \in TaxIncomes :
                 income <= more => calculate_tax(node, income) <= calculate_tax(node, more)
    /\ calculate_tax(node, Dec(50000, 0)) = Dec(6800, 0)
    /\ TaxPaid =>
          unit.result = ReferenceTax(DefaultBrackets,
                                     unit.before[1].total_income_ytd, 1)

\* the node deducted 6800 from a wallet with a year-to-date income of 50000
ProgressiveTaxWitness ==
    /\ TaxPaid
    /\ unit.before[1].total_income_ytd = Dec(50000, 0)
    /\ unit.result = Dec(6800, 0)
    /\ heap[1].balance = DSub(unit.before[1].balance, Dec(6800, 0))

(***************************************************************************)
(* SpecYtd: a salary, a rent and the annual income tax executed by          *)
(* execute_daily on days of two calendar years.                             *)
(***************************************************************************)

YtdSalaries == {Dec(60000, 0), Dec(120000, 0)}

YtdBalances == {Dec(6000, 0), Dec(1000, 0)}

\* the days a behaviour picks from, the salary and the rent being due on
\* the 30th and the tax on 31 December
YtdDates ==
    {Date(2024, 11, 30), Date(2024, 12, 30), Date(2024, 12, 31),
     Date(2025, 1, 30), Date(2025, 2, 28), Date(2025, 12, 31)}

YtdInit ==
    \E annual_salary \in YtdSalaries, balance \in YtdBalances :
        /\ dags = <<BuildDag(DAGEngine,
                             <<SalaryNode("salary", annual_salary, 30, <<>>),
                               FixedExpenseNode("rent", Dec(2000, 0), 30,
                                                <<"Monthly rent">>, <<"salary">>),
                               IncomeTaxNode("taxes", DefaultBrackets, 12, 31,
                                             <<"salary">>)>>, 1)>>
        /\ engines = <<>>
        /\ managers = <<>>
        /\ heap = New(<<>>, WalletState(Date(2024, 1, 1), balance, Dec(700, 0))).heap
        /\ unit = [date |-> None, before |-> None]

\* what dag.execute_daily(state, current_date, rng) that returned r leaves
\* behind
YtdExecuted(current_date, r) ==
    /\ dags' = <<r.dag>>
    /\ heap' = r.heap
    /\ unit' = [date |-> Some(current_date), before |-> Some(Load(heap, 1))]
    /\ UNCHANGED <<engines, managers>>

\* the DAG executed on a day later than every day executed before
YtdDay ==
    \E current_date \in YtdDates :
        /\ unit.date # None => DateLess(unit.date[1], current_date)
        /\ YtdExecuted(current_date,
                       execute_daily(dags[1], heap, 1, current_date, NewRandom(42)))

SpecYtd == YtdInit /\ [][YtdDay]_vars

RECURSIVE CreditedIn(_, _, _, _)
\* the sum of sign * amount over the transactions history[1..i] stamped in
\* the calendar year and filed under one of the categories
CreditedIn(history, i, year, categories) ==
    IF i = 0 THEN 0
    ELSE CreditedIn(history, i - 1, year, categories)
         + (IF history[i].timestamp.year = year /\ history[i].category \in categories
            THEN IF history[i].amount < 0 THEN -history[i].amount
                 ELSE history[i].amount
            ELSE 0)

\* C31: on every day executed the year-to-date accumulators of the wallet
\* are the income, the expenses and the income tax booked since 1 January
\* of that day's calendar year, none of them negative, and the income tax
\* deducted in a year is the tax on that year's income.
YtdAccumulators ==
    unit.date # None =>
        LET state == heap[1]
            history == state.transaction_history
            n == Len(history)
            year == unit.date[1].year
            income == CreditedIn(history, n, year,
                                 {"income:salary", "income:variable",
                                  "income:investment"})
        IN /\ state.total_income_ytd = income
           /\ state.total_expenses_ytd
                  = CreditedIn(history, n, year,
                               {"expense:fixed", "expense:variable",
                                "expense:conditional", "expense:debt"})
           /\ state.taxes_paid_ytd = CreditedIn(history, n, year, {"tax:income"})
           /\ state.total_income_ytd >= 0
           /\ state.total_expenses_ytd >= 0
           /\ state.taxes_paid_ytd >= 0
           /\ \A i \in 1..n :
                  (history[i].category = "tax:income"
                       /\ history[i].timestamp.year = year) =>
                      -history[i].amount = calculate_tax(dags[1].nodes[3], income)

\* the first salary of 2025 is in the wallet whose year-to-date income
\* still counts a salary of 2024
YtdAccumulatorsCounterexample ==
    /\ unit.date = Some(Date(2025, 1, 30))
    /\ Len(heap[1].transaction_history) = 4
    /\ heap[1].transaction_history[1].timestamp = Date(2024, 11, 30)
    /\ heap[1].transaction_history[3].timestamp = Date(2025, 1, 30)
    /\ heap[1].total_income_ytd = Dec(10000, 0)
    /\ heap[1].total_expenses_ytd = Dec(4000, 0)

(***************************************************************************)
(* SpecPurchase: AssetPurchaseNode.execute called on one wallet on          *)
(* successive days.                                                         *)
(***************************************************************************)

PurchaseBalances == {Dec(4000, 0), Dec(5000, 0), Dec(6000, 0), Dec(7000, 0)}

PurchasePercentages == {0, Dec(5, 1), Dec(1, 0)}

\* the wallet without assets, with the target asset and bonds, and with an
\* illiquid target asset and a debt
PurchaseHoldings ==
    {[assets |-> <<>>, debts |-> <<>>],
     [assets |-> <<Asset("stocks_portfolio", "stocks", Dec(1000, 0), TRUE, Dec(2, 2)),
                   Asset("bonds", "bonds", Dec(200, 0), TRUE, Dec(1, 2))>>,
      debts |-> <<>>],
     [assets |-> <<Asset("bonds", "bonds", Dec(200, 0), TRUE, Dec(1, 2)),
                   Asset("stocks_portfolio", "stocks", Dec(1000, 0), FALSE, Dec(5, 1))>>,
      debts |-> <<Debt("loan", Dec(300, 0), Dec(6, 2), Dec(100, 0))>>]}

PurchaseDates == {Date(2024, 1, 1), Date(2024, 1, 2)}

PurchaseInit ==
    \E balance \in PurchaseBalances, investment_percentage \in PurchasePercentages,
       holdings \in PurchaseHoldings :
        LET n == New(<<>>, WalletState(Date(2024, 1, 1), balance, Dec(700, 0)))
        IN /\ dags = <<add_node(DAGEngine,
                                AssetPurchaseNode("auto_invest", "stocks",
                                                  Dec(5000, 0),
                                                  investment_percentage, <<>>)).dag>>
           /\ engines = <<>>
           /\ managers = <<>>
           /\ heap = Hold(n.heap, n.ref, holdings)
           /\ unit = [date |-> None, before |-> None, result |-> 0]

\* what node.execute(state, context) on current_date that returned o leaves
\* behind
PurchaseExecuted(current_date, o) ==
    /\ dags' = <<[dags[1] EXCEPT !.nodes[1] = [o.node EXCEPT !.last_value = Some(o.result)]]>>
    /\ heap' = Store(heap, 1, o.state)
    /\ unit' = [date |-> Some(current_date), before |-> Some(Load(heap, 1)),
                result |-> o.result]
    /\ UNCHANGED <<engines, managers>>

\* the node executed on a day later than every day executed before
PurchaseDay ==
    \E current_date \in PurchaseDates :
        /\ unit.date # None => DateLess(unit.date[1], current_date)
        /\ PurchaseExecuted(current_date,
                            AssetPurchaseExecute(dags[1].nodes[1], Load(heap, 1),
                                                 ExecutionContext(current_date,
                                                                  NewRandom(42))))

SpecPurchase == PurchaseInit /\ [][PurchaseDay]_vars

RECURSIVE PlainSum(_, _)
\* value 1 + ... + value i of the assets, in whole-number arithmetic
PlainSum(assets, i) == IF i = 0 THEN 0 ELSE PlainSum(assets, i - 1) + assets[i].value

\* the value of the asset called name, 0 when the wallet has none
ValueOf(assets, name) ==
    IF AssetIndex(assets, name) = 0 THEN 0
    ELSE assets[AssetIndex(assets, name)].value

\* the wallet before the latest execution held more than the threshold
Invested == unit.date # None /\ unit.before[1].balance > dags[1].nodes[1].investment_threshold

OrderIds == {"rent", "credit_score", "bankruptcy"}

\* the dependency lists a node is registered with
OrderDeps ==
    {<<>>, <<"rent">>, <<"credit_score">>, <<"bankruptcy">>,
     <<"rent", "credit_score">>, <<"rent", "bankruptcy">>,
     <<"credit_score", "bankruptcy">>}

OrderNode(node_id, dependencies) ==
    CASE node_id = "rent" ->
             FixedExpenseNode("rent", Dec(2000, 0), 1, <<"Monthly rent">>,
                              dependencies)
      [] node_id = "credit_score" ->
             CreditScoreNode("credit_score", Dec(10, 0), dependencies)
      [] node_id = "bankruptcy" ->
             BankruptcyCheckNode("bankruptcy", Dec(-1000, 0), dependencies)

\* the wallet that owes more than it has, the wallet the rent takes below
\* the bankruptcy threshold, and the wallet that can pay
OrderWallets ==
    {[balance |-> Dec(6000, 0),
      debts |-> <<Debt("loan", Dec(8000, 0), Dec(6, 2), Dec(300, 0))>>],
     [balance |-> Dec(500, 0), debts |-> <<>>],
     [balance |-> Dec(6000, 0), debts |-> <<>>]}

OrderDates == {Date(2024, 1, 1), Date(2024, 1, 2)}

OrderInit ==
    \E ids \in {s \in [1..3 -> OrderIds] : \A i, j \in 1..3 : s[i] = s[j] => i = j},
       deps \in [1..3 -> OrderDeps], wallet \in OrderWallets :
        LET n == New(<<>>, WalletState(Date(2024, 1, 1), wallet.balance, Dec(700, 0)))
        IN /\ \A i \in 1..3 : ~Contains(deps[i], ids[i])
           /\ dags = <<BuildDag(DAGEngine,
                                [i \in 1..3 |-> OrderNode(ids[i], deps[i])], 1)>>
           /\ engines = <<>>
           /\ managers = <<>>
           /\ heap = Hold(n.heap, n.ref, [assets |-> <<>>, debts |-> wallet.debts])
           /\ unit = [date |-> None, raised |-> "no", trace |-> <<>>]

\* what dag.execute_daily(state, current_date, rng) that returned r leaves
\* behind
OrderExecuted(current_date, r) ==
    /\ dags' = <<r.dag>>
    /\ heap' = r.heap
    /\ unit' = [date |-> Some(current_date), raised |-> r.raised, trace |-> r.trace]
    /\ UNCHANGED <<engines, managers>>

\* the DAG executed on a day later than every day executed before
OrderDay ==
    \E current_date \in OrderDates :
        /\ unit.date # None => DateLess(unit.date[1], current_date)
        /\ OrderExecuted(current_date,
                         execute_daily(dags[1], heap, 1, current_date, NewRandom(42)))

SpecOrder == OrderInit /\ [][OrderDay]_vars

\* the condition BankruptcyCheckNode tests, on the wallet state
BankruptcyTest(node, state) ==
    /\ get_net_worth(state) < node.bankruptcy_threshold
    /\ get_liquid_assets(state) < Dec(100, 0)

\* C36: on every day of a valid DAG the BankruptcyCheckNode is the last
\* node to run, so that it finds bankruptcy exactly when the state the day
\* ends with meets its test, and the credit score of 300 it forces is the
\* score the day ends with.
BankruptcyRunsLast ==
    (unit.date # None /\ unit.raised = "no") =>
        LET node == get_node(dags[1], "bankruptcy")
            final == Load(heap, 1)
            found == node.last_value = Some(Dec(1, 0))
        IN /\ unit.trace[Len(unit.trace)].node_id = "bankruptcy"
           /\ found <=> BankruptcyTest(node, final)
           /\ found => final.credit_score = Dec(300, 0)

\* the bankruptcy check ran first and forced the score to 300, and the
\* credit score node that depends on it raised the score again
BankruptcyRunsLastCounterexample ==
    /\ unit.date # None
    /\ unit.raised = "no"
    /\ unit.trace[1].node_id = "bankruptcy"
    /\ unit.trace[1].credit_score = Dec(300, 0)
    /\ Contains(get_node(dags[1], "credit_score").dependencies, "bankruptcy")
    /\ Load(heap, 1).credit_score > Dec(300, 0)

(***************************************************************************)
(* SpecTree: one StateManager driven through create_snapshot,               *)
(* branch_from_snapshot, switch_timeline and add_state.                     *)
(***************************************************************************)

TreeInit ==
    /\ dags = <<>>
    /\ engines = <<>>
    /\ managers = <<StateManager>>
    /\ heap = New(<<>>, WalletState(RunStart, Dec(6000, 0), Dec(700, 0))).heap
    /\ unit = [op |-> "init", raised |-> "no", made |-> 0,
               id |-> 0, modifications |-> NoModifications]

TreeBranch ==
    /\ Len(managers[1].timelines) < MaxTimelines
    /\ \E snapshot_id \in MgrIds :
        MgrBranched(snapshot_id, NoModifications,
                    branch_from_snapshot(managers[1], heap, snapshot_id,
                                         NoModifications))

\* manager.add_state(simulation_date, state) with the live wallet
TreeAddState ==
    \E simulation_date \in {RunEnd} :
        /\ managers' = <<add_state(managers[1], simulation_date, 1)>>
        /\ unit' = [unit EXCEPT !.op = "add_state", !.raised = "no", !.id = 0,
                                !.modifications = NoModifications]
        /\ UNCHANGED <<dags, engines, heap>>

TreeNext ==
    \/ MgrCreateSnapshot
    \/ TreeBranch
    \/ MgrSwitchTimeline
    \/ TreeAddState

SpecTree == TreeInit /\ [][TreeNext]_vars

RECURSIVE ReachesMain(_, _, _)
\* the parent links from the timeline lead to the main timeline in at most
\* n steps
ReachesMain(m, timeline_id, n) ==
    \/ timeline_id = m.main_timeline_id
    \/ /\ n > 0
       /\ timeline_id \in TimelineIds(m)
       /\ get_timeline(m, timeline_id).parent_id # None
       /\ ReachesMain(m, get_timeline(m, timeline_id).parent_id[1], n - 1)

\* the places <<timeline, position>> that hold a snapshot of the given id
HeldAt(m, snapshot_id) ==
    UNION {{<<i, j>> : j \in {k \in DOMAIN m.timelines[i].snapshots :
                          m.timelines[i].snapshots[k].snapshot_id = snapshot_id}} :
           i \in DOMAIN m.timelines}

\* C37: after any sequence of create_snapshot, branch_from_snapshot,
\* switch_timeline and add_state calls the timelines are a tree rooted at
\* the main timeline: current_timeline_id names a timeline, every parent_id
\* is absent or names a timeline, the parent links of every timeline lead
\* to the main timeline without a cycle, and every snapshot id is held by
\* exactly one timeline.
TimelineTree ==
    LET m == managers[1] IN
    /\ m.current_timeline_id \in TimelineIds(m)
    /\ m.main_timeline_id \in TimelineIds(m)
    /\ Cardinality(TimelineIds(m)) = Len(m.timelines)
    /\ \A i \in DOMAIN m.timelines :
          /\ \/ m.timelines[i].parent_id = None
             \/ m.timelines[i].parent_id[1] \in TimelineIds(m)
          /\ ReachesMain(m, m.timelines[i].timeline_id, Len(m.timelines) - 1)
          /\ \A j \in DOMAIN m.timelines[i].snapshots :
                 HeldAt(m, m.timelines[i].snapshots[j].snapshot_id) = {<<i, j>>}

\* a branch of a branch is the current timeline, with a snapshot made in it
\* and a state filed in it
TimelineTreeWitness ==
    LET m == managers[1] IN
    /\ Len(m.timelines) = MaxTimelines
    /\ m.timelines[3].parent_id = Some(m.timelines[2].timeline_id)
    /\ m.timelines[2].parent_id = Some(m.main_timeline_id)
    /\ m.current_timeline_id = m.timelines[3].timeline_id
    /\ Len(m.timelines[3].snapshots) = 2
    /\ Len(m.timelines[3].states) = 2
    /\ unit.op = "add_state"

\* C38: create_snapshot and create_branch leave the simulation state of the
\* engine they are called on as it was: its wallet state with the assets
\* and debts in it, its generator, its daily_metrics and its flags, and the
\* bookkeeping of the nodes of its DAG (checked on SpecBranch, where the
\* parent engine makes both calls).
SnapshotAndBranchReadOnly ==
    [][unit'.last[1] \in {"create_snapshot", "create_branch"} =>
           /\ engines'[1] = engines[1]
           /\ Load(heap', engines[1].current_state)
                  = Load(heap, engines[1].current_state)
           /\ dags' = dags]_vars

\* a branch with a new balance, asset and debt was made by a parent that
\* has run two days, holds assets and debts and has paid its salary
SnapshotAndBranchReadOnlyWitness ==
    /\ unit.last[1] = "create_branch"
    /\ unit.branches[Len(unit.branches)].modifications # NoModifications
    /\ Len(engines[1].daily_metrics) = Len(ParentDays)
    /\ Load(heap, engines[1].current_state).assets # <<>>
    /\ Load(heap, engines[1].current_state).debts # <<>>
    /\ get_node(dags[1], "salary").last_payment_month # None
    /\ Load(heap, engines[Len(engines)].current_state).balance = Dec(10000, 0)

(***************************************************************************)
(* Recovery slope (metrics.py): RecoverySlopeAnalyzer over the              *)
(* daily_metrics rows of a run, of which it reads the balance.              *)
(***************************************************************************)

\* days of the recovery window
RecoveryWindow == 30

RECURSIVE NegativePeriods(_, _, _, _)
\* the loop over the rows from position i on: the periods of negative
\* balance that a row without one has closed
NegativePeriods(daily_metrics, i, current_period, negative_periods) ==
    IF i > Len(daily_metrics) THEN negative_periods
    ELSE IF ToFloat(daily_metrics[i].balance) < 0
    THEN NegativePeriods(daily_metrics, i + 1, Append(current_period, i),
                         negative_periods)
    ELSE IF current_period # <<>>
    THEN NegativePeriods(daily_metrics, i + 1, <<>>,
                         Append(negative_periods, current_period))
    ELSE NegativePeriods(daily_metrics, i + 1, current_period, negative_periods)

\* x / n on floats
FloatDiv(x, n) == IF x = 0 THEN 0 ELSE ToFloat(DDiv(x, Dec(n, 0)))

\* RecoverySlopeAnalyzer.calculate_recovery_slope; rows are numbered from 1
calculate_recovery_slope(daily_metrics) ==
    LET negative_periods == NegativePeriods(daily_metrics, 1, <<>>, <<>>) IN
    IF negative_periods = <<>> THEN None
    ELSE LET last_negative_period == negative_periods[Len(negative_periods)]
             recovery_start == last_negative_period[Len(last_negative_period)]
         IN IF recovery_start + RecoveryWindow <= Len(daily_metrics)
            THEN LET recovery_end == Min(recovery_start + RecoveryWindow,
                                         Len(daily_metrics))
                     start_balance == ToFloat(daily_metrics[recovery_start].balance)
                     end_balance == ToFloat(daily_metrics[recovery_end].balance)
                     days_elapsed == recovery_end - recovery_start
                 IN IF days_elapsed > 0
                    THEN Some(FromFloat(FloatDiv(ToFloat(end_balance - start_balance),
                                                 days_elapsed)))
                    ELSE Some(0)
            ELSE Some(0)

(***************************************************************************)
(* SpecSlope: calculate_recovery_slope called once on the rows of a run.    *)
(***************************************************************************)

\* days of the varied part of a run
MaxSlopeDays == 3

SlopeBalances == {Dec(-100, 0), 0, Dec(200, 0)}

RECURSIVE Repeat(_, _)
\* n rows of the same balance
Repeat(row, n) == IF n = 0 THEN <<>> ELSE Append(Repeat(row, n - 1), row)

\* the runs: up to MaxSlopeDays days of any balances, alone or followed by
\* a recovery window and a day of one balance
SlopeRuns ==
    {head \o tail :
        head \in UNION {[1..n -> {[balance |-> b] : b \in SlopeBalances}] :
                           n \in 0..MaxSlopeDays},
        tail \in {<<>>} \cup {Repeat([balance |-> b], RecoveryWindow + 1) :
                                 b \in SlopeBalances}}

SlopeInit ==
    /\ dags = <<>>
    /\ engines = <<>>
    /\ managers = <<>>
    /\ heap = <<>>
    /\ \E daily_metrics \in SlopeRuns :
          unit = [pc |-> "ready", daily_metrics |-> daily_metrics, result |-> None]

SlopeCall ==
    /\ unit.pc = "ready"
    /\ unit' = [unit EXCEPT !.pc = "done",
                            !.result = Some(calculate_recovery_slope(unit.daily_metrics))]
    /\ UNCHANGED <<dags, engines, managers, heap>>

SpecSlope == SlopeInit /\ [][SlopeCall]_vars

\* the days of negative balance
NegativeDays(daily_metrics) ==
    {i \in DOMAIN daily_metrics : daily_metrics[i].balance < 0}

\* the greatest member of a set of numbers
Greatest(S) == CHOOSE i \in S : \A j \in S : j <= i

\* x is y to the digits a float keeps
WithinFloat(x, y) == Abs(x - y) * Pow10(FloatDigits) <= 5 * Abs(y)

\* C39: calculate_recovery_slope returns no value exactly when no day has a
\* balance below 0; otherwise, k being the last day of the last run of
\* negative days, a run that lasts to the final day included, it returns
\* (balance[k + 30] - balance[k]) / 30, as a float, when there is a day
\* k + 30, and 0 when there is not.
RecoverySlope ==
    unit.pc = "done" =>
        LET daily_metrics == unit.daily_metrics
            result == unit.result[1]
            k == Greatest(NegativeDays(daily_metrics))
        IN /\ result = None <=> NegativeDays(daily_metrics) = {}
           /\ NegativeDays(daily_metrics) # {} =>
                  IF k + RecoveryWindow <= Len(daily_metrics)
                  THEN /\ result # None
                       /\ WithinFloat(result[1] * RecoveryWindow,
                                      daily_metrics[k + RecoveryWindow].balance
                                          - daily_metrics[k].balance)
                  ELSE result = Some(0)

\* no value is returned for a run whose only day has a negative balance
RecoverySlopeCounterexample ==
    /\ unit.pc = "done"
    /\ unit.daily_metrics = <<[balance |-> Dec(-100, 0)]>>
    /\ unit.result = Some(None)

\* a slope of 10 a day was returned for the 30 days from the last negative
\* day, at -100, to a day at 200
RecoverySlopeComputed ==
    /\ unit.pc = "done"
    /\ unit.result = Some(Some(Dec(10, 0)))
    /\ unit.daily_metrics[2].balance = Dec(-100, 0)
    /\ Len(unit.daily_metrics) = 2 + RecoveryWindow + 1

(***************************************************************************)
(* Ratios (analytics.py, metrics.py).  A call gives the value it returns    *)
(* or the exception it raises.                                              *)
(***************************************************************************)

Returned(value) == [value |-> value, raised |-> "no"]

\* a / b on Decimals: a zero divisor raises
Quotient(a, b) ==
    IF b # 0 THEN Returned(DDiv(a, b))
    ELSE [value |-> 0,
          raised |-> IF a = 0 THEN "InvalidOperation" ELSE "DivisionByZero"]

\* the ratio without the test for a total debt of 0
LiquidityRatioUnguarded(state) ==
    Quotient(DAdd(get_liquid_assets(state), state.balance), get_total_debt(state))

\* PortfolioHealthCalculator.calculate_liquidity_ratio
calculate_liquidity_ratio(state) ==
    LET liquid_assets == DAdd(get_liquid_assets(state), state.balance)
        total_debt == get_total_debt(state)
    IN IF total_debt = 0 THEN Returned(Dec(999, 0))
       ELSE Quotient(liquid_assets, total_debt)

\* PortfolioHealthCalculator.calculate_debt_to_income
calculate_debt_to_income(state) ==
    LET total_debt == get_total_debt(state)
        annual_income == state.total_income_ytd
    IN IF annual_income = 0 THEN Returned(0)
       ELSE Quotient(total_debt, annual_income)

\* RiskMetrics.calculate_collapse_probability: negative_days / total_days
\* is a division of ints that gives a float
calculate_collapse_probability(daily_metrics) ==
    IF daily_metrics = <<>> THEN Returned(0)
    ELSE LET negative_days ==
                 Cardinality({i \in DOMAIN daily_metrics :
                                 ToFloat(daily_metrics[i].balance) < 0})
             total_days == Len(daily_metrics)
         IN IF total_days = 0
            THEN [value |-> 0, raised |-> "ZeroDivisionError"]
            ELSE Returned(FromFloat(FloatDiv(Dec(negative_days, 0), total_days)))

(***************************************************************************)
(* SpecZero: the ratios, the debt-ratio impact of the credit score and the  *)
(* liquidation called on one wallet and the rows of one run.                *)
(***************************************************************************)

ZeroBalances == {Dec(-3, 0), 0, Dec(2000, 0)}

ZeroIncomes == {0, Dec(40000, 0)}

\* no debt, a debt paid down to a principal of 0, and a loan
ZeroDebts ==
    {<<>>,
     <<[Debt("card", 0, Dec(24, 2), Dec(100, 0)) EXCEPT !.missed_payments = 1]>>,
     <<Debt("loan", Dec(8000, 0), Dec(6, 2), Dec(300, 0))>>}

\* no asset, a liquid asset at penalty 1 alone, and one next to a liquid
\* asset at penalty 0.5
ZeroAssets ==
    {<<>>,
     <<Asset("bonds", "bonds", Dec(5, 0), TRUE, Dec(1, 0))>>,
     <<Asset("stocks", "stocks", Dec(10, 0), TRUE, Dec(5, 1)),
       Asset("bonds", "bonds", Dec(5, 0), TRUE, Dec(1, 0))>>}

ZeroRuns ==
    {<<>>, <<[balance |-> Dec(-100, 0)]>>,
     <<[balance |-> Dec(200, 0)], [balance |-> Dec(-100, 0)]>>,
     <<[balance |-> Dec(200, 0)], [balance |-> 0]>>}

ZeroInit ==
    \E balance \in ZeroBalances, income \in ZeroIncomes, debts \in ZeroDebts,
       assets \in ZeroAssets, daily_metrics \in ZeroRuns :
        LET n == New(<<>>, [WalletState(Date(2024, 1, 1), balance, Dec(700, 0))
                               EXCEPT !.total_income_ytd = income])
        IN /\ dags = <<BuildDag(DAGEngine,
                                <<LiquidationNode("auto_liquidation", 0, <<>>),
                                  CreditScoreNode("credit_score", Dec(1, 1), <<>>)>>,
                                1)>>
           /\ engines = <<>>
           /\ managers = <<>>
           /\ heap = Hold(n.heap, n.ref, [assets |-> assets, debts |-> debts])
           /\ unit = [op |-> "init", daily_metrics |-> daily_metrics,
                      result |-> Returned(0)]

\* what a call that reads the wallet and returned result leaves behind
ZeroCalled(op, result) ==
    /\ unit' = [unit EXCEPT !.op = op, !.result = result]
    /\ UNCHANGED <<dags, engines, managers, heap>>

ZeroLiquidityRatio ==
    ZeroCalled("calculate_liquidity_ratio", calculate_liquidity_ratio(Load(heap, 1)))

ZeroDebtToIncome ==
    ZeroCalled("calculate_debt_to_income", calculate_debt_to_income(Load(heap, 1)))

ZeroCollapseProbability ==
    ZeroCalled("calculate_collapse_probability",
               calculate_collapse_probability(unit.daily_metrics))

ZeroDebtRatioImpact ==
    ZeroCalled("calculate_debt_ratio_impact",
               Returned(calculate_debt_ratio_impact(Load(heap, 1))))

\* what LiquidationNode.execute that returned o leaves behind
ZeroLiquidated(o) ==
    /\ dags' = <<[dags[1] EXCEPT !.nodes[1] = [o.node EXCEPT !.last_value = Some(o.result)]]>>
    /\ heap' = Store(heap, 1, o.state)
    /\ unit' = [unit EXCEPT !.op = "execute", !.result = Returned(o.result)]
    /\ UNCHANGED <<engines, managers>>

ZeroLiquidate ==
    ZeroLiquidated(LiquidationExecute(dags[1].nodes[1], Load(heap, 1),
                                      ExecutionContext(Date(2024, 1, 1),
                                                       NewRandom(42))))

ZeroNext ==
    \/ ZeroLiquidityRatio
    \/ ZeroDebtToIncome
    \/ ZeroCollapseProbability
    \/ ZeroDebtRatioImpact
    \/ ZeroLiquidate

SpecZero == ZeroInit /\ [][ZeroNext]_vars

\* C40: no call fails on a divisor of 0: the liquidity ratio is 999 for a
\* total debt of 0, the debt-to-income ratio is 0 for a year-to-date income
\* of 0, the collapse probability is 0 for a run without days, the debt
\* ratio of the credit score is taken on an income of 50000 when the income
\* is 0, and LiquidationNode sells no asset at penalty 1 in part, the one
\* branch that divides by 1 - penalty.
NoZeroDivisors ==
    LET state == Load(heap, 1)
        history == state.transaction_history
    IN /\ unit.result.raised = "no"
       /\ (unit.op = "calculate_liquidity_ratio" /\ get_total_debt(state) = 0) =>
              unit.result.value = Dec(999, 0)
       /\ (unit.op = "calculate_debt_to_income" /\ state.total_income_ytd = 0) =>
              unit.result.value = 0
       /\ (unit.op = "calculate_collapse_probability" /\ unit.daily_metrics = <<>>) =>
              unit.result.value = 0
       /\ (unit.op = "calculate_debt_ratio_impact" /\ state.total_income_ytd = 0) =>
              unit.result.value
                  = calculate_debt_ratio_impact(
                        [state EXCEPT !.total_income_ytd = Dec(50000, 0)])
       /\ \A i \in DOMAIN history :
              history[i].description[1] = "Partial liquidation of" =>
                  history[i].description[3] # Dec(100, 0)

\* the liquidity ratio of 999 of a wallet without debt and income, after a
\* liquidation that sold its one asset, at penalty 1, whole and for nothing
NoZeroDivisorsWitness ==
    LET state == Load(heap, 1)
        history == state.transaction_history
    IN /\ unit.op = "calculate_liquidity_ratio"
       /\ unit.result = Returned(Dec(999, 0))
       /\ get_total_debt(state) = 0
       /\ state.total_income_ytd = 0
       /\ state.balance < 0
       /\ Len(history) = 1
       /\ history[1].description = <<"Full liquidation of", "bonds", Dec(100, 0)>>
       /\ history[1].amount = 0

=============================================================================
